---- MODULE Spec2Model ----
(***************************************************************************)
(* Appointment booking of the clinic front desk (frontdesk/models.py,      *)
(* frontdesk/forms.py, frontdesk/views.py, accounts/views.py), the walk-in *)
(* queue and the availability windows of the doctors.                      *)
(*                                                                         *)
(* The database is the state: each table is a function from primary key to *)
(* row; the wall clock is part of the state as well.  Every view           *)
(* is one action that runs the whole request: form validation, the guard   *)
(* of the view, the writes, and the storage constraints of the table.      *)
(***************************************************************************)
EXTENDS Integers, Sequences, FiniteSets, TLC

\* ---------------------------------------------------------------- bounds
NumDoctors  == 2    \* doctors 1..NumDoctors exist initially
NumDates    == 1    \* appointment dates 0..NumDates-1
TimesPerDay == 2    \* times of day 0..TimesPerDay-1
MaxNow      == 1    \* the clock runs from 0 to MaxNow
MaxAppts    == 2    \* at most MaxAppts appointment rows are ever inserted
NumStaff    == 1    \* users 1..NumStaff have a FrontDeskStaff profile
NumPatients == 2    \* patients 1..NumPatients are registered initially
MaxQueue    == 3    \* at most MaxQueue queue entries are ever inserted
MaxDay      == 1    \* midnight passes at most MaxDay times
MaxDeskQueue == 2   \* queue entries while the status changes are explored
MaxNewPatients == 2 \* at most MaxNewPatients patients are registered
MaxSchedules == 2   \* at most MaxSchedules weekly schedule rows are ever inserted
MaxWindows  == 2    \* at most MaxWindows availability windows are ever inserted
MaxCapacity == 2    \* max_appointments of a window is 1..MaxCapacity
SlotStep    == 15   \* minutes between two times of the slot listings
MaxSlotSteps == 4   \* the slot listings use the times 0..MaxSlotSteps*SlotStep

Doctors == 1..NumDoctors
Dates   == 0..(NumDates - 1)
Times   == 0..(TimesPerDay - 1)
Staff   == 1..NumStaff
\* user 0 is a logged-in staff user whose FrontDeskStaff row is missing
Users   == 0..NumStaff
\* the patients registered initially
Patients == 1..NumPatients

\* A null column (null=True): timestamps and foreign keys.
NULL == -1

\* The other form fields of an appointment as the requests fill them in;
\* none of the values is the default of its column.
Details ==
    { [patient |-> 2, duration |-> 15, appointment_type |-> "new", reason_for_visit |-> "fever"] }

CancelReasons == {"", "patient asked"}
Methods       == {"GET", "POST"}

STATUS_CHOICES ==
    {"scheduled", "confirmed", "checked_in", "in_progress",
     "completed", "cancelled", "no_show", "rescheduled"}

\* The statuses the forms and the availability queries treat as holding a slot.
ACTIVE_STATUSES == {"scheduled", "confirmed", "checked_in"}

\* Suffixes random.choices can produce: all-digit ones collide with the
\* sequential numbering, the others (AlphaSuffix) never do.
AlphaSuffix    == 10000
RandomSuffixes == {1, 2, AlphaSuffix}

VARIABLES
    appts,      \* appointment table: pk -> row
    nextPk,     \* next auto-increment primary key of the appointment table
    doctors,    \* doctor table: pk -> [is_available]
    now,        \* wall clock, in the unit of appointment times
    response,   \* how the last request handled in one piece ended
    reqs,       \* the requests in flight (overlapping requests only)
    patients,   \* patient table: pk -> row
    nextPatient, \* next auto-increment primary key of the patient table
    queue,      \* queue table: pk -> row
    nextQ,      \* next auto-increment primary key of the queue table
    qreqs,      \* the enqueue requests in flight (overlapping requests only)
    windows,    \* doctor_availability table: pk -> row
    nextW,      \* next auto-increment primary key of doctor_availability
    schedules,  \* doctor_schedule table: pk -> row
    nextS       \* next auto-increment primary key of doctor_schedule

\* The tables of the walk-in queue and of the availability windows.
qvars == <<queue, nextQ, qreqs>>
svars == <<schedules, nextS>>
wvars == <<windows, nextW, svars>>
pvars == <<patients, nextPatient>>

vars == <<appts, nextPk, doctors, now, response, reqs, pvars, qvars, wvars>>

\* How a request ends:
\*   "success"   the operation was carried out
\*   "invalid"   the form did not validate and is shown again with its errors
\*   "error"     messages.error: the view refused or caught the failure
\*   "warning"   messages.warning: a status transition that does not apply
\*   "form"      a GET: the page with the empty form
\*   "exception" an exception left the view (HTTP 500)
\*   "redirect"  the view did nothing and redirected
Outcomes == {"success", "invalid", "error", "warning", "form", "exception", "redirect"}

\* ------------------------------------------------------------ time helpers
\* datetime.combine(date, time)
combine(d, t) == d * TimesPerDay + t

\* date.today()
today(clock) == clock \div TimesPerDay

\* ------------------------------------------------------- Appointment model
\* Appointment.is_past
is_past(a, clock) == combine(a.appointment_date, a.appointment_time) < clock

\* Appointment.can_cancel without the is_past test.
can_cancel_anytime(a, clock) == a.status \in {"scheduled", "confirmed"}

\* Appointment.can_cancel
can_cancel(a, clock) == a.status \in {"scheduled", "confirmed"} /\ ~is_past(a, clock)

\* Appointment.can_reschedule
can_reschedule(a, clock) == a.status \in {"scheduled", "confirmed"} /\ ~is_past(a, clock)

\* Appointment.mark_confirmed
mark_confirmed(a, clock) ==
    [a EXCEPT !.status = "confirmed", !.is_confirmed = TRUE, !.confirmed_at = clock]

\* Appointment.mark_checked_in
mark_checked_in(a, clock) ==
    [a EXCEPT !.status = "checked_in", !.checked_in_at = clock]

\* Appointment.start_consultation (no view calls it)
start_consultation(a, clock) ==
    [a EXCEPT !.status = "in_progress", !.consultation_start_time = clock]

\* Appointment.complete_appointment
complete_appointment(a, clock) ==
    [a EXCEPT !.status = "completed", !.consultation_end_time = clock]

\* Appointment.cancel_appointment that does not record who cancelled.
cancel_appointment_noactor(a, reason, cancelled_by, clock) ==
    [a EXCEPT !.status = "cancelled", !.cancellation_reason = reason,
              !.cancelled_at = clock]

\* Appointment.cancel_appointment
cancel_appointment(a, reason, cancelled_by, clock) ==
    [a EXCEPT !.status = "cancelled", !.cancellation_reason = reason,
              !.cancelled_at = clock, !.cancelled_by = cancelled_by]

\* A fresh Appointment instance with the field defaults of the model.  The
\* free-text columns no rule reads (symptoms, special_instructions, notes),
\* the reminder columns and the auto timestamps are left out.
Appointment(doctor, d, t, det, scheduled_by, rescheduled_from) ==
    [ appointment_id          |-> <<>>,
      patient                 |-> det.patient,
      doctor                  |-> doctor,
      appointment_date        |-> d,
      appointment_time        |-> t,
      duration                |-> det.duration,
      status                  |-> "scheduled",
      appointment_type        |-> det.appointment_type,
      reason_for_visit        |-> det.reason_for_visit,
      scheduled_by            |-> scheduled_by,
      is_confirmed            |-> FALSE,
      confirmed_at            |-> NULL,
      checked_in_at           |-> NULL,
      consultation_start_time |-> NULL,
      consultation_end_time   |-> NULL,
      cancellation_reason     |-> "",
      cancelled_at            |-> NULL,
      cancelled_by            |-> NULL,
      rescheduled_from        |-> rescheduled_from ]

\* The form fields of a stored appointment (what reschedule carries over).
DetailsOf(a) ==
    [patient |-> a.patient, duration |-> a.duration,
     appointment_type |-> a.appointment_type, reason_for_visit |-> a.reason_for_visit]

\* ------------------------------------------------------ storage constraints
\* Appointment.Meta without unique_together: no triple is ever taken.
UniqueTogetherTaken_none(db, pk, doctor, d, t) == FALSE

\* Appointment.Meta.unique_together = [doctor, appointment_date, appointment_time]:
\* some row other than pk holds the triple, whatever its status.
UniqueTogetherTaken(db, pk, doctor, d, t) ==
    \E q \in DOMAIN db :
        /\ q # pk
        /\ db[q].doctor = doctor
        /\ db[q].appointment_date = d
        /\ db[q].appointment_time = t

\* appointment_id is unique=True
AppointmentIdTaken(db, pk, id) ==
    \E q \in DOMAIN db : q # pk /\ db[q].appointment_id = id

\* Writing row under primary key pk raises IntegrityError.
IntegrityError(db, pk, row) ==
    \/ UniqueTogetherTaken(db, pk, row.doctor, row.appointment_date, row.appointment_time)
    \/ AppointmentIdTaken(db, pk, row.appointment_id)

\* Appointment.generate_appointment_id: the identifiers a call can return.
\* An identifier is <<date, suffix>>.  The table does not change between the
\* attempts of the loop, so every attempt computes the same candidate; when
\* it is taken the loop runs out and the random suffix is used.
generate_appointment_id(db, clock) ==
    LET date_str    == today(clock)
        today_count == Cardinality({q \in DOMAIN db :
                           /\ db[q].appointment_id # <<>>
                           /\ db[q].appointment_id[1] = date_str})
        candidate   == <<date_str, today_count + 1>>
    IN  IF ~(\E q \in DOMAIN db : db[q].appointment_id = candidate)
        THEN {candidate}
        ELSE {<<date_str, r>> : r \in RandomSuffixes}

\* ------------------------------------------------------------------ forms
\* AppointmentForm.doctor: the choices are the doctors with is_available.
DoctorChoiceValid(docs, doctor) ==
    doctor \in DOMAIN docs /\ docs[doctor].is_available

\* QueueForm.patient / AppointmentForm.patient: the active patients.
PatientChoiceValid(pats, patient) ==
    patient \in DOMAIN pats /\ pats[patient].is_active

\* AppointmentForm.clean with the comparison against the clock off by one:
\* a date/time equal to the clock counts as past.
AppointmentForm_clean_lte(db, pk, doctor, d, t, clock) ==
    IF combine(d, t) <= clock THEN "past"
    ELSE IF \E q \in DOMAIN db :
                /\ q # pk
                /\ db[q].doctor = doctor
                /\ db[q].appointment_date = d
                /\ db[q].appointment_time = t
                /\ db[q].status \in ACTIVE_STATUSES
         THEN "conflict"
         ELSE "ok"

\* AppointmentForm.clean: "ok", or the validation error it raises.
AppointmentForm_clean(db, pk, doctor, d, t, clock) ==
    IF combine(d, t) < clock THEN "past"
    ELSE IF \E q \in DOMAIN db :
                /\ q # pk
                /\ db[q].doctor = doctor
                /\ db[q].appointment_date = d
                /\ db[q].appointment_time = t
                /\ db[q].status \in ACTIVE_STATUSES
         THEN "conflict"
         ELSE "ok"

\* AppointmentForm.is_valid for instance pk (0: a new appointment): the field
\* validation, clean, and the model form's check of Meta.unique_together.
AppointmentForm_validate(db, docs, pk, doctor, d, t, clock) ==
    IF ~DoctorChoiceValid(docs, doctor) THEN "invalid_doctor"
    ELSE IF AppointmentForm_clean(db, pk, doctor, d, t, clock) # "ok"
         THEN AppointmentForm_clean(db, pk, doctor, d, t, clock)
         ELSE IF UniqueTogetherTaken(db, pk, doctor, d, t) THEN "not_unique"
              ELSE "ok"

\* AppointmentRescheduleForm.clean for the appointment orig (primary key pk).
AppointmentRescheduleForm_clean(db, pk, orig, d, t, clock) ==
    IF combine(d, t) < clock THEN "past"
    ELSE IF \E q \in DOMAIN db :
                /\ q # pk
                /\ db[q].doctor = orig.doctor
                /\ db[q].appointment_date = d
                /\ db[q].appointment_time = t
                /\ db[q].status \in ACTIVE_STATUSES
         THEN "conflict"
         ELSE "ok"

\* ------------------------------------------------------------------- Init
NumReqs == 2
Reqs    == 1..NumReqs

\* ---------------------------------------------------------- patient ids
\* A patient_id is a string, kept as the sequence of its characters.
DigitChars == <<"0", "1", "2", "3", "4", "5", "6", "7", "8", "9">>
PAT        == <<"P", "A", "T">>

IsDigit(c)    == \E i \in 1..10 : DigitChars[i] = c
DigitValue(c) == (CHOOSE i \in 1..10 : DigitChars[i] = c) - 1

\* str.replace('PAT', ''): every occurrence of PAT is dropped, left to right.
RECURSIVE replace_PAT(_)
replace_PAT(str) ==
    IF Len(str) >= 3 /\ SubSeq(str, 1, 3) = PAT
    THEN replace_PAT(SubSeq(str, 4, Len(str)))
    ELSE IF str = <<>> THEN <<>>
    ELSE <<str[1]>> \o replace_PAT(Tail(str))

\* int(str) raises ValueError unless str is a decimal numeral (signs,
\* blanks and underscores, which int() also takes, are not in the alphabet).
IntParses(str) == str # <<>> /\ \A i \in 1..Len(str) : IsDigit(str[i])

RECURSIVE int(_)
int(str) ==
    IF Len(str) = 1 THEN DigitValue(str[1])
    ELSE 10 * int(SubSeq(str, 1, Len(str) - 1)) + DigitValue(str[Len(str)])

\* The decimal numeral of n.
RECURSIVE Decimal(_)
Decimal(n) ==
    IF n < 10 THEN <<DigitChars[n + 1]>>
    ELSE Decimal(n \div 10) \o <<DigitChars[(n % 10) + 1]>>

\* The format specification 0{width}d: zeros on the left up to width.
RECURSIVE ZeroPad(_, _)
ZeroPad(str, width) ==
    IF Len(str) >= width THEN str ELSE ZeroPad(<<"0">> \o str, width)

\* f"PAT{n:05d}"
format_patient_id(n) == PAT \o ZeroPad(Decimal(n), 5)

\* A Patient row: the identifier, the staff member who registered the
\* patient and the is_active flag (default True); the personal data are
\* left out.
Patient(patient_id, registered_by) ==
    [ patient_id |-> patient_id, registered_by |-> registered_by, is_active |-> TRUE ]

Idle == [pc |-> "idle"]

Init ==
    /\ appts = <<>>
    /\ nextPk = 1
    /\ doctors = [d \in Doctors |-> [is_available |-> TRUE, accepts_walkins |-> TRUE]]
    /\ now = 0
    /\ response = [op |-> "none", outcome |-> "none"]
    /\ reqs = [r \in Reqs |-> Idle]
    /\ patients = [p \in Patients |-> Patient(format_patient_id(p), NULL)]
    /\ nextPatient = NumPatients + 1
    /\ queue = <<>>
    /\ nextQ = 1
    /\ qreqs = [r \in Reqs |-> Idle]
    /\ windows = <<>>
    /\ nextW = 1
    /\ schedules = <<>>
    /\ nextS = 1

\* The answer of the view op.
Respond(op, outcome) == response' = [op |-> op, outcome |-> outcome]

\* ------------------------------------------------- the writes of the views
\* form_valid without the except clauses: the IntegrityError leaves the view.
CreateView_save_nocatch(db, pk, row) ==
    IF IntegrityError(db, pk, row)
    THEN [appts |-> db, outcome |-> "exception"]
    ELSE [appts |-> (pk :> row) @@ db, outcome |-> "success"]

\* AppointmentCreateView.form_valid from appointment.save() on: the insert,
\* with every exception caught and reported.
CreateView_save(db, pk, row) ==
    IF IntegrityError(db, pk, row)
    THEN [appts |-> db, outcome |-> "error"]
    ELSE [appts |-> (pk :> row) @@ db, outcome |-> "success"]

\* AppointmentUpdateView.form_valid: the row AppointmentForm.save writes.
UpdateView_row(a, doctor, d, t, det) ==
    [a EXCEPT !.doctor = doctor, !.appointment_date = d, !.appointment_time = t,
              !.patient = det.patient, !.duration = det.duration,
              !.appointment_type = det.appointment_type,
              !.reason_for_visit = det.reason_for_visit]

\* objects.create of the reschedule view without duration=: the column
\* default (30) is stored instead of the original's duration.
Reschedule_created_defaultduration(a, pk, d, t) ==
    [ Appointment(a.doctor, d, t, DetailsOf(a), a.scheduled_by, pk) EXCEPT !.duration = 30 ]

\* reschedule_appointment_view: the row objects.create inserts.
Reschedule_created(a, pk, d, t) ==
    Appointment(a.doctor, d, t, DetailsOf(a), a.scheduled_by, pk)

\* reschedule_appointment_view: the original after the view marked it.
Reschedule_original(a) == [a EXCEPT !.status = "rescheduled"]

\* ------------------------------------------------------------------ views
\* AppointmentCreateView (POST): scheduleAppointment.
ScheduleAppointment(user, doctor, d, t, det) ==
    LET v == IF ~PatientChoiceValid(patients, det.patient) THEN "invalid_patient"
             ELSE AppointmentForm_validate(appts, doctors, 0, doctor, d, t, now)
    IN
    /\ UNCHANGED <<doctors, now, reqs, pvars, qvars, wvars>>
    /\ IF v # "ok"
       THEN Respond("schedule", "invalid") /\ UNCHANGED <<appts, nextPk>>
       ELSE IF user \notin Staff
            THEN Respond("schedule", "error") /\ UNCHANGED <<appts, nextPk>>
            ELSE \E id \in generate_appointment_id(appts, now) :
                    LET row == [Appointment(doctor, d, t, det, user, NULL)
                                    EXCEPT !.appointment_id = id]
                        res == CreateView_save(appts, nextPk, row)
                    IN  /\ res.outcome = "success" => nextPk <= MaxAppts
                        /\ appts' = res.appts
                        /\ nextPk' = IF res.outcome = "success" THEN nextPk + 1 ELSE nextPk
                        /\ Respond("schedule", res.outcome)

\* AppointmentUpdateView (POST): edit the form fields of appointment pk.
\* For a completed or cancelled appointment get_form disables every field, so
\* the form is bound to the instance's own values.
EditAppointment(pk, doctor, d, t, det) ==
    LET a        == appts[pk]
        disabled == a.status \in {"completed", "cancelled"}
        doctor_  == IF disabled THEN a.doctor ELSE doctor
        d_       == IF disabled THEN a.appointment_date ELSE d
        t_       == IF disabled THEN a.appointment_time ELSE t
        det_     == IF disabled THEN DetailsOf(a) ELSE det
        v        == IF ~PatientChoiceValid(patients, det_.patient) THEN "invalid_patient"
                    ELSE AppointmentForm_validate(appts, doctors, pk, doctor_, d_, t_, now)
        row      == UpdateView_row(a, doctor_, d_, t_, det_)
    IN
    /\ pk \in DOMAIN appts
    /\ UNCHANGED <<nextPk, doctors, now, reqs, pvars, qvars, wvars>>
    /\ IF v # "ok"
       THEN Respond("edit", "invalid") /\ UNCHANGED appts
       ELSE IF disabled
            THEN Respond("edit", "error") /\ UNCHANGED appts
            ELSE IF IntegrityError(appts, pk, row)
                 THEN Respond("edit", "exception") /\ UNCHANGED appts
                 ELSE /\ appts' = [appts EXCEPT ![pk] = row]
                      /\ Respond("edit", "success")

\* cancel_appointment_view
CancelAppointment(pk, user, method, reason) ==
    LET a == appts[pk] IN
    /\ pk \in DOMAIN appts
    /\ UNCHANGED <<nextPk, doctors, now, reqs, pvars, qvars, wvars>>
    /\ IF ~can_cancel(a, now)
       THEN Respond("cancel", "error") /\ UNCHANGED appts
       ELSE IF method # "POST"
            THEN Respond("cancel", "form") /\ UNCHANGED appts
            ELSE IF reason = ""
                 THEN Respond("cancel", "invalid") /\ UNCHANGED appts
                 ELSE IF user \notin Staff
                      THEN Respond("cancel", "error") /\ UNCHANGED appts
                      ELSE /\ appts' = [appts EXCEPT
                                          ![pk] = cancel_appointment(a, reason, user, now)]
                           /\ Respond("cancel", "success")

\* reschedule_appointment_view.  The three writes are separate statements:
\* objects.create of the new row (appointment_id still empty), the save that
\* sets its identifier, and the save that marks the original rescheduled.
\* An IntegrityError of a write is not caught: the request ends there and
\* the earlier writes stay.
RescheduleAppointment(pk, method, d, t) ==
    LET a       == appts[pk]
        v       == AppointmentRescheduleForm_clean(appts, pk, a, d, t, now)
        created == Reschedule_created(a, pk, d, t)
        db1     == (nextPk :> created) @@ appts
    IN
    /\ pk \in DOMAIN appts
    /\ UNCHANGED <<doctors, now, reqs, pvars, qvars, wvars>>
    /\ IF ~can_reschedule(a, now)
       THEN Respond("reschedule", "error") /\ UNCHANGED <<appts, nextPk>>
       ELSE IF method # "POST"
            THEN Respond("reschedule", "form") /\ UNCHANGED <<appts, nextPk>>
            ELSE IF v # "ok"
                 THEN Respond("reschedule", "invalid") /\ UNCHANGED <<appts, nextPk>>
                 ELSE IF IntegrityError(appts, nextPk, created)
                      THEN Respond("reschedule", "exception") /\ UNCHANGED <<appts, nextPk>>
                      ELSE \E id \in generate_appointment_id(db1, now) :
                             LET saved == [created EXCEPT !.appointment_id = id] IN
                             /\ nextPk <= MaxAppts
                             /\ nextPk' = nextPk + 1
                             /\ IF IntegrityError(db1, nextPk, saved)
                                THEN /\ appts' = db1
                                     /\ Respond("reschedule", "exception")
                                ELSE /\ appts' = [db1 EXCEPT ![nextPk] = saved,
                                                             ![pk] = Reschedule_original(a)]
                                     /\ Respond("reschedule", "success")

\* confirm_appointment_view without the test of the current status.
ConfirmAppointment_anystatus(pk) ==
    /\ pk \in DOMAIN appts
    /\ UNCHANGED <<nextPk, doctors, now, reqs, pvars, qvars, wvars>>
    /\ appts' = [appts EXCEPT ![pk] = mark_confirmed(appts[pk], now)]
    /\ Respond("confirm", "success")

\* confirm_appointment_view
ConfirmAppointment(pk) ==
    /\ pk \in DOMAIN appts
    /\ UNCHANGED <<nextPk, doctors, now, reqs, pvars, qvars, wvars>>
    /\ IF appts[pk].status = "scheduled"
       THEN /\ appts' = [appts EXCEPT ![pk] = mark_confirmed(appts[pk], now)]
            /\ Respond("confirm", "success")
       ELSE Respond("confirm", "warning") /\ UNCHANGED appts

\* checkin_appointment_view without the test of the current status.
CheckinAppointment_anystatus(pk) ==
    /\ pk \in DOMAIN appts
    /\ UNCHANGED <<nextPk, doctors, now, reqs, pvars, qvars, wvars>>
    /\ appts' = [appts EXCEPT ![pk] = mark_checked_in(appts[pk], now)]
    /\ Respond("checkin", "success")

\* checkin_appointment_view
CheckinAppointment(pk) ==
    /\ pk \in DOMAIN appts
    /\ UNCHANGED <<nextPk, doctors, now, reqs, pvars, qvars, wvars>>
    /\ IF appts[pk].status \in {"scheduled", "confirmed"}
       THEN /\ appts' = [appts EXCEPT ![pk] = mark_checked_in(appts[pk], now)]
            /\ Respond("checkin", "success")
       ELSE Respond("checkin", "warning") /\ UNCHANGED appts

\* complete_appointment_view that also completes a confirmed appointment.
CompleteAppointment_fromconfirmed(pk) ==
    /\ pk \in DOMAIN appts
    /\ UNCHANGED <<nextPk, doctors, now, reqs, pvars, qvars, wvars>>
    /\ IF appts[pk].status \in {"confirmed", "checked_in", "in_progress"}
       THEN /\ appts' = [appts EXCEPT ![pk] = complete_appointment(appts[pk], now)]
            /\ Respond("complete", "success")
       ELSE Respond("complete", "warning") /\ UNCHANGED appts

\* complete_appointment_view
CompleteAppointment(pk) ==
    /\ pk \in DOMAIN appts
    /\ UNCHANGED <<nextPk, doctors, now, reqs, pvars, qvars, wvars>>
    /\ IF appts[pk].status \in {"checked_in", "in_progress"}
       THEN /\ appts' = [appts EXCEPT ![pk] = complete_appointment(appts[pk], now)]
            /\ Respond("complete", "success")
       ELSE Respond("complete", "warning") /\ UNCHANGED appts

\* toggle_doctor_availability
ToggleDoctorAvailability(doctor) ==
    /\ doctor \in DOMAIN doctors
    /\ doctors' = [doctors EXCEPT ![doctor].is_available = ~doctors[doctor].is_available]
    /\ Respond("toggle", "success")
    /\ UNCHANGED <<appts, nextPk, now, reqs, pvars, qvars, wvars>>

\* quick_toggle_doctor_status: available sets the flag, busy and off_duty
\* clear it; any other status changes nothing and is answered with the
\* message "Invalid status"; a request that is not a POST is answered 400.
QuickToggleDoctorStatus(doctor, method, new_status) ==
    /\ doctor \in DOMAIN doctors
    /\ UNCHANGED <<appts, nextPk, now, reqs, pvars, qvars, wvars>>
    /\ IF method # "POST"
       THEN Respond("quick_status", "invalid") /\ UNCHANGED doctors
       ELSE IF new_status = "available"
       THEN /\ doctors' = [doctors EXCEPT ![doctor].is_available = TRUE]
            /\ Respond("quick_status", "success")
       ELSE IF new_status \in {"busy", "off_duty"}
       THEN /\ doctors' = [doctors EXCEPT ![doctor].is_available = FALSE]
            /\ Respond("quick_status", "success")
       ELSE Respond("quick_status", "error") /\ UNCHANGED doctors

\* DoctorUpdateView (POST): DoctorForm writes both flags of the doctor; the
\* other fields are valid.
DoctorUpdate(doctor, is_available, accepts_walkins) ==
    /\ doctor \in DOMAIN doctors
    /\ doctors' = [doctors EXCEPT ![doctor] =
                      [is_available |-> is_available, accepts_walkins |-> accepts_walkins]]
    /\ Respond("doctor_update", "success")
    /\ UNCHANGED <<appts, nextPk, now, reqs, pvars, qvars, wvars>>

\* The wall clock advances.
Tick ==
    /\ now < MaxNow
    /\ now' = now + 1
    /\ UNCHANGED <<appts, nextPk, doctors, response, reqs, pvars, qvars, wvars>>

Pks == 1..MaxAppts

Next ==
    \/ \E user \in Users, doctor \in Doctors, d \in Dates, t \in Times, det \in Details :
           ScheduleAppointment(user, doctor, d, t, det)
    \/ \E pk \in Pks, doctor \in Doctors, d \in Dates, t \in Times, det \in Details :
           EditAppointment(pk, doctor, d, t, det)
    \/ \E pk \in Pks, user \in Users, method \in Methods, reason \in CancelReasons :
           CancelAppointment(pk, user, method, reason)
    \/ \E pk \in Pks, method \in Methods, d \in Dates, t \in Times :
           RescheduleAppointment(pk, method, d, t)
    \/ \E pk \in Pks : ConfirmAppointment(pk)
    \/ \E pk \in Pks : CheckinAppointment(pk)
    \/ \E pk \in Pks : CompleteAppointment(pk)
    \/ Tick

\* ------------------------------------------------- overlapping requests
\* A scheduleAppointment request of AppointmentCreateView taken statement by
\* statement, so that another request can run between its reads and its
\* write: form.is_valid(), then the staff lookup and generate_appointment_id,
\* then appointment.save().
ScheduleRequest(pc, user, doctor, d, t, det, id, outcome) ==
    [pc |-> pc, op |-> "schedule", user |-> user, doctor |-> doctor,
     appointment_date |-> d, appointment_time |-> t, det |-> det,
     id |-> id, outcome |-> outcome, stored |-> 0]

\* form.is_valid() of the request in slot r (the slots are taken in order)
ScheduleValidate(r, user, doctor, d, t, det) ==
    LET v == IF ~PatientChoiceValid(patients, det.patient) THEN "invalid_patient"
             ELSE AppointmentForm_validate(appts, doctors, 0, doctor, d, t, now)
    IN
    /\ reqs[r].pc = "idle"
    /\ \A r2 \in Reqs : r2 < r => reqs[r2].pc # "idle"
    /\ reqs' = [reqs EXCEPT ![r] =
                  IF v = "ok"
                  THEN ScheduleRequest("valid", user, doctor, d, t, det, <<>>, "none")
                  ELSE ScheduleRequest("done", user, doctor, d, t, det, <<>>, "invalid")]
    /\ UNCHANGED <<appts, nextPk, doctors, now, response, pvars, qvars, wvars>>

\* form_valid up to the identifier: FrontDeskStaff lookup, generate_appointment_id
ScheduleGenerateId(r) ==
    LET q == reqs[r] IN
    /\ q.pc = "valid"
    /\ IF q.user \notin Staff
       THEN reqs' = [reqs EXCEPT ![r].pc = "done", ![r].outcome = "error"]
       ELSE \E id \in generate_appointment_id(appts, now) :
               reqs' = [reqs EXCEPT ![r].pc = "save", ![r].id = id]
    /\ UNCHANGED <<appts, nextPk, doctors, now, response, pvars, qvars, wvars>>

\* appointment.save() and the answer of form_valid
ScheduleSave(r) ==
    LET q   == reqs[r]
        row == [Appointment(q.doctor, q.appointment_date, q.appointment_time,
                            q.det, q.user, NULL) EXCEPT !.appointment_id = q.id]
        res == CreateView_save(appts, nextPk, row)
    IN
    /\ q.pc = "save"
    /\ res.outcome = "success" => nextPk <= MaxAppts
    /\ appts' = res.appts
    /\ nextPk' = IF res.outcome = "success" THEN nextPk + 1 ELSE nextPk
    /\ reqs' = [reqs EXCEPT ![r].pc = "done", ![r].outcome = res.outcome,
                             ![r].stored = IF res.outcome = "success" THEN nextPk ELSE 0]
    /\ UNCHANGED <<doctors, now, response, pvars, qvars, wvars>>

NextConc ==
    \/ \E r \in Reqs, user \in Staff, doctor \in Doctors, d \in Dates, t \in Times,
          det \in Details : ScheduleValidate(r, user, doctor, d, t, det)
    \/ \E r \in Reqs : ScheduleGenerateId(r)
    \/ \E r \in Reqs : ScheduleSave(r)
    \/ \E pk \in Pks, doctor \in Doctors, d \in Dates, t \in Times, det \in Details :
           EditAppointment(pk, doctor, d, t, det)
    \/ \E pk \in Pks, user \in Staff, reason \in CancelReasons \ {""} :
           CancelAppointment(pk, user, "POST", reason)
    \/ \E pk \in Pks, d \in Dates, t \in Times :
           RescheduleAppointment(pk, "POST", d, t)
    \/ \E pk \in Pks : ConfirmAppointment(pk)
    \/ \E pk \in Pks : CheckinAppointment(pk)
    \/ \E pk \in Pks : CompleteAppointment(pk)

\* Requests that overlap: NumReqs scheduleAppointment requests run statement
\* by statement among the other operations, which are posted by a staff user
\* with the form filled in.  The clock stands still.
SpecConc == Init /\ [][NextConc]_vars

\* Requests handled one after another.
Spec == Init /\ [][Next]_vars

\* =========================================================== walk-in queue
\* Queue.STATUS_CHOICES
Queue_STATUS_CHOICES == {"waiting", "with_doctor", "completed", "cancelled", "no_show"}

\* Queue.PRIORITY_CHOICES
PRIORITY_CHOICES == {"normal", "urgent", "emergency"}

\* What request.POST.get('status') can hold: a status, or something else.
PostedStatuses == Queue_STATUS_CHOICES \cup {"bogus"}

\* priority is a CharField: order_by('priority') compares the stored strings.
\* They differ in the first letter, whose place in the alphabet decides.
PriorityCollation ==
    [p \in PRIORITY_CHOICES |->
        CASE p = "emergency" -> 5  [] p = "normal" -> 14  [] p = "urgent" -> 21]

\* Queue.generate_queue_number counting the entries of every date.
generate_queue_number_alldates(qdb, clock) ==
    <<today(clock), Cardinality(DOMAIN qdb) + 1>>

\* Queue.generate_queue_number: <<date, sequence>> stands for
\* "Q" + YYYYMMDD + the sequence padded to three digits.
generate_queue_number(qdb, clock) ==
    <<today(clock),
      Cardinality({k \in DOMAIN qdb : qdb[k].queue_date = today(clock)}) + 1>>

\* today.strftime('%Y%m%d'): four digits of the year, two of the month, two
\* of the day.  Day d of the model is day d + 1 of January 2024; the length
\* is the same for every date date.today() returns on a running server.
strftime_Ymd(d) ==
    ZeroPad(Decimal(2024), 4) \o ZeroPad(Decimal(1), 2) \o ZeroPad(Decimal(d + 1), 2)

\* f"Q{today.strftime('%Y%m%d')}{today_queues + 1:03d}": the characters of
\* the queue number <<date, sequence>>.
format_queue_number(number) ==
    <<"Q">> \o strftime_Ymd(number[1]) \o ZeroPad(Decimal(number[2]), 3)

\* queue_number = models.CharField(max_length=10, unique=True)
queue_number_max_length == 10

\* The waiting count of QueueForm.save without the queue_date filter.
estimated_wait_time_anydate(qdb, doctor, clock) ==
    IF doctor = NULL THEN 0
    ELSE 15 * Cardinality({k \in DOMAIN qdb :
                              /\ qdb[k].doctor = doctor
                              /\ qdb[k].status = "waiting"})

\* QueueForm.save: the estimated wait, 15 minutes per entry waiting today for
\* the same doctor; the column default when no doctor is given.
estimated_wait_time(qdb, doctor, clock) ==
    IF doctor = NULL THEN 0
    ELSE 15 * Cardinality({k \in DOMAIN qdb :
                              /\ qdb[k].doctor = doctor
                              /\ qdb[k].status = "waiting"
                              /\ qdb[k].queue_date = today(clock)})

\* The Queue instance QueueForm.save(commit=False, added_by=...) returns; the
\* insert stamps arrival_time (auto_now_add).  reason_for_visit, notes and
\* the created/updated stamps are left out.
QueueForm_save(qdb, patient, doctor, priority, added_by, clock) ==
    [ queue_number            |-> generate_queue_number(qdb, clock),
      patient                 |-> patient,
      doctor                  |-> doctor,
      status                  |-> "waiting",
      priority                |-> priority,
      arrival_time            |-> clock,
      called_time             |-> NULL,
      consultation_start_time |-> NULL,
      consultation_end_time   |-> NULL,
      estimated_wait_time     |-> estimated_wait_time(qdb, doctor, clock),
      added_by                |-> added_by,
      queue_date              |-> today(clock) ]

\* timedelta.total_seconds() of a difference of two clock values.
TickSeconds == 90
total_seconds(delta) == delta * TickSeconds

\* int(x / 60) for a number of seconds x >= 0: the fraction is dropped.
int_div_60(seconds) == seconds \div 60

\* get_wait_time with the first test dropped: the clock is read whenever the
\* entry is waiting, the recorded start only otherwise.
get_wait_time_clockonly(q, clock) ==
    IF q.status = "waiting"
    THEN int_div_60(total_seconds(clock - q.arrival_time))
    ELSE 0

\* Queue.get_wait_time
get_wait_time(q, clock) ==
    IF q.consultation_start_time # NULL
    THEN int_div_60(total_seconds(q.consultation_start_time - q.arrival_time))
    ELSE IF q.status = "waiting"
    THEN int_div_60(total_seconds(clock - q.arrival_time))
    ELSE 0

\* Queue.mark_with_doctor
mark_with_doctor(q, clock) ==
    [q EXCEPT !.status = "with_doctor", !.consultation_start_time = clock]

\* Queue.mark_completed
mark_completed(q, clock) ==
    [q EXCEPT !.status = "completed", !.consultation_end_time = clock]

\* queue_number is unique=True
QueueNumberTaken(qdb, pk, number) ==
    \E k \in DOMAIN qdb : k # pk /\ qdb[k].queue_number = number

\* The QueueForm.doctor queryset filtered on is_available alone.
QueueDoctorChoiceValid_nowalkins(docs, doctor) ==
    \/ doctor = NULL
    \/ doctor \in DOMAIN docs /\ docs[doctor].is_available

\* QueueForm.doctor: optional; the choices are the doctors that are
\* available and accept walk-ins.
QueueDoctorChoiceValid(docs, doctor) ==
    \/ doctor = NULL
    \/ doctor \in DOMAIN docs /\ docs[doctor].is_available /\ docs[doctor].accepts_walkins

\* QueueForm.is_valid
QueueForm_is_valid(pats, docs, patient, doctor, priority) ==
    /\ PatientChoiceValid(pats, patient)
    /\ QueueDoctorChoiceValid(docs, doctor)
    /\ priority \in PRIORITY_CHOICES

\* add_to_queue_view: enqueue.  queue_entry.save() is not inside a handler
\* for IntegrityError: a queue number that is taken ends the request with an
\* exception.
AddToQueue(user, method, patient, doctor, priority) ==
    LET entry == QueueForm_save(queue, patient, doctor, priority, user, now) IN
    /\ UNCHANGED <<appts, nextPk, doctors, now, reqs, pvars, qreqs, wvars>>
    /\ IF method # "POST"
       THEN Respond("enqueue", "form") /\ UNCHANGED <<queue, nextQ>>
       ELSE IF ~QueueForm_is_valid(patients, doctors, patient, doctor, priority)
            THEN Respond("enqueue", "invalid") /\ UNCHANGED <<queue, nextQ>>
            ELSE IF user \notin Staff
                 THEN Respond("enqueue", "error") /\ UNCHANGED <<queue, nextQ>>
                 ELSE IF QueueNumberTaken(queue, nextQ, entry.queue_number)
                      THEN Respond("enqueue", "exception") /\ UNCHANGED <<queue, nextQ>>
                      ELSE /\ nextQ <= MaxQueue
                           /\ queue' = (nextQ :> entry) @@ queue
                           /\ nextQ' = nextQ + 1
                           /\ Respond("enqueue", "success")

\* update_queue_status_view that leaves the doctor's flag alone.
UpdateQueueStatus_noflag(pk, method, new_status) ==
    LET q == queue[pk] IN
    /\ pk \in DOMAIN queue
    /\ UNCHANGED <<appts, nextPk, now, reqs, pvars, nextQ, qreqs, wvars, doctors>>
    /\ IF method # "POST"
       THEN Respond("queue_status", "redirect") /\ UNCHANGED queue
       ELSE IF new_status \notin Queue_STATUS_CHOICES
            THEN Respond("queue_status", "error") /\ UNCHANGED queue
            ELSE /\ Respond("queue_status", "success")
                 /\ queue' = [queue EXCEPT ![pk] =
                        CASE new_status = "with_doctor" -> mark_with_doctor(q, now)
                          [] new_status = "completed"   -> mark_completed(q, now)
                          [] OTHER -> [q EXCEPT !.status = new_status]]

\* update_queue_status_view: any status may be posted, from any status.
UpdateQueueStatus(pk, method, new_status) ==
    LET q == queue[pk] IN
    /\ pk \in DOMAIN queue
    /\ UNCHANGED <<appts, nextPk, now, reqs, pvars, nextQ, qreqs, wvars>>
    /\ IF method # "POST"
       THEN Respond("queue_status", "redirect") /\ UNCHANGED <<queue, doctors>>
       ELSE IF new_status \notin Queue_STATUS_CHOICES
            THEN Respond("queue_status", "error") /\ UNCHANGED <<queue, doctors>>
            ELSE /\ Respond("queue_status", "success")
                 /\ queue' = [queue EXCEPT ![pk] =
                        CASE new_status = "with_doctor" -> mark_with_doctor(q, now)
                          [] new_status = "completed"   -> mark_completed(q, now)
                          [] OTHER -> [q EXCEPT !.status = new_status]]
                 /\ doctors' =
                        IF q.doctor # NULL /\ new_status \in {"with_doctor", "completed"}
                        THEN [doctors EXCEPT ![q.doctor].is_available =
                                                  (new_status = "completed")]
                        ELSE doctors

\* remove_from_queue_view: the entry stays, with status cancelled.
RemoveFromQueue(pk, method) ==
    /\ pk \in DOMAIN queue
    /\ UNCHANGED <<appts, nextPk, doctors, now, reqs, pvars, nextQ, qreqs, wvars>>
    /\ IF method # "POST"
       THEN Respond("queue_remove", "redirect") /\ UNCHANGED queue
       ELSE /\ queue' = [queue EXCEPT ![pk].status = "cancelled"]
            /\ Respond("queue_remove", "success")

\* The sequences that hold every element of S once.
Orderings(S) ==
    {l \in [1..Cardinality(S) -> S] : \A i, j \in DOMAIN l : i # j => l[i] # l[j]}

\* The row a may stand before the row b under order_by('priority', 'arrival_time').
order_by_priority_arrival(a, b) ==
    \/ PriorityCollation[a.priority] < PriorityCollation[b.priority]
    \/ /\ a.priority = b.priority
       /\ a.arrival_time <= b.arrival_time

\* The listings the database may return for the entries S: rows that agree
\* in both keys come in either order.
QueueListings(qdb, S) ==
    {l \in Orderings(S) :
        \A i, j \in DOMAIN l : i < j => order_by_priority_arrival(qdb[l[i]], qdb[l[j]])}

\* The queue listings: queue_management_view lists today's entries;
\* today_queue_view and dashboard_view those of them that are waiting or
\* with the doctor.
QueueListingViews == {"queue_management", "queue_today", "dashboard"}

QueueListing(view) ==
    LET S == {k \in DOMAIN queue :
                /\ queue[k].queue_date = today(now)
                /\ view # "queue_management"
                      => queue[k].status \in {"waiting", "with_doctor"}}
    IN
    /\ view \in QueueListingViews
    /\ \E l \in QueueListings(queue, S) :
          response' = [op |-> view, outcome |-> "success", listing |-> l]
    /\ UNCHANGED <<appts, nextPk, doctors, now, reqs, pvars, qvars, wvars>>

\* The wall clock passes midnight.
NextDay ==
    /\ today(now) < MaxDay
    /\ now' = (today(now) + 1) * TimesPerDay
    /\ UNCHANGED <<appts, nextPk, doctors, response, reqs, pvars, qvars, wvars>>

QPks == 1..MaxQueue

\* The queue of the walk-ins without a doctor of their own: enqueue by a
\* staff user, cancellation, the listings, the clock.
NextQueue ==
    \/ \E priority \in PRIORITY_CHOICES :
           AddToQueue(1, "POST", 1, NULL, priority)
    \/ \E pk \in QPks : RemoveFromQueue(pk, "POST")
    \/ \E view \in QueueListingViews : QueueListing(view)
    \/ Tick
    \/ NextDay

SpecQueue == Init /\ [][NextQueue]_vars

\* The front desk calling walk-ins in: enqueue with or without a doctor,
\* the status changes of the entries, cancellation, the clock.
NextDesk ==
    \/ \E doctor \in Doctors \cup {NULL} :
           nextQ <= MaxDeskQueue /\ AddToQueue(1, "POST", 1, doctor, "normal")
    \/ \E pk \in QPks, method \in Methods, new_status \in PostedStatuses :
           UpdateQueueStatus(pk, method, new_status)
    \/ \E pk \in QPks, method \in Methods : RemoveFromQueue(pk, method)
    \/ Tick

SpecDesk == Init /\ [][NextDesk]_vars

\* A call of Queue.get_wait_time on the entry pk (today_queue_view and
\* queue_stats_ajax call it for the entries they list).
GetWaitTime(pk) ==
    /\ pk \in DOMAIN queue
    /\ UNCHANGED <<appts, nextPk, doctors, now, reqs, pvars, qvars, wvars>>
    /\ response' = [op |-> "get_wait_time", outcome |-> "success",
                    entry |-> pk, wait_time |-> get_wait_time(queue[pk], now)]

\* Walk-ins of doctor 1 or of no doctor over two days: enqueue, the status
\* changes, cancellation, reading the wait, the clock and midnight.
NextWait ==
    \/ \E doctor \in {1, NULL} :
           nextQ <= MaxDeskQueue /\ AddToQueue(1, "POST", 1, doctor, "normal")
    \/ \E pk \in QPks, new_status \in Queue_STATUS_CHOICES :
           UpdateQueueStatus(pk, "POST", new_status)
    \/ \E pk \in QPks : RemoveFromQueue(pk, "POST")
    \/ \E pk \in QPks : GetWaitTime(pk)
    \/ Tick
    \/ NextDay

SpecWait == Init /\ [][NextWait]_vars

\* The availability flag of doctor 1 under every view that writes it, while
\* appointments are booked and walk-ins are enqueued and called in.
QuickStatuses == {"available", "busy", "off_duty", "bogus"}
NextFlags ==
    \/ \E doctor \in Doctors, det \in Details :
           ScheduleAppointment(1, doctor, 0, 0, det)
    \/ \E pk \in Pks : RescheduleAppointment(pk, "POST", 0, 1)
    \/ \E doctor \in Doctors \cup {NULL} :
           nextQ <= MaxDeskQueue /\ AddToQueue(1, "POST", 1, doctor, "normal")
    \/ \E pk \in QPks, new_status \in {"with_doctor", "completed"} :
           UpdateQueueStatus(pk, "POST", new_status)
    \/ ToggleDoctorAvailability(1)
    \/ \E method \in Methods, new_status \in QuickStatuses :
           QuickToggleDoctorStatus(1, method, new_status)
    \/ \E is_available \in BOOLEAN, accepts_walkins \in BOOLEAN :
           DoctorUpdate(1, is_available, accepts_walkins)

SpecFlags == Init /\ [][NextFlags]_vars

\* --------------------------------------- overlapping transition requests
\* cancel_appointment_view, confirm_appointment_view, checkin_appointment_view
\* and reschedule_appointment_view each begin with get_object_or_404, which
\* copies the row into an instance of the request, and end with a save() of
\* that instance, which writes every column.  Another request can run between
\* the two; the test of the status reads the instance, not the table.
TransitionRequest(pc, op, pk, inst, user, reason, d, t, outcome) ==
    [pc |-> pc, op |-> op, pk |-> pk, inst |-> inst, user |-> user,
     reason |-> reason, appointment_date |-> d, appointment_time |-> t,
     outcome |-> outcome]

\* get_object_or_404(Appointment, pk=pk) of the request in slot r (the slots
\* are taken in order)
LoadAppointment(r, op, pk, user, reason, d, t) ==
    /\ reqs[r].pc = "idle"
    /\ \A r2 \in Reqs : r2 < r => reqs[r2].pc # "idle"
    /\ pk \in DOMAIN appts
    /\ reqs' = [reqs EXCEPT ![r] = TransitionRequest("loaded", op, pk, appts[pk],
                                                     user, reason, d, t, "")]
    /\ UNCHANGED <<appts, nextPk, doctors, now, response, pvars, qvars, wvars>>

\* Model.save() of a loaded instance: an UPDATE of every column of the row,
\* whatever the row holds by then.
save_instance(db, pk, row) == [db EXCEPT ![pk] = row]

\* The rest of a POST to cancel_appointment_view after the load.
CancelFinish(r) ==
    LET q == reqs[r] IN
    /\ q.pc = "loaded" /\ q.op = "cancel"
    /\ UNCHANGED <<nextPk, doctors, now, response, pvars, qvars, wvars>>
    /\ IF ~can_cancel(q.inst, now)
       THEN /\ UNCHANGED appts
            /\ reqs' = [reqs EXCEPT ![r].pc = "done", ![r].outcome = "error"]
       ELSE IF q.reason = ""
            THEN /\ UNCHANGED appts
                 /\ reqs' = [reqs EXCEPT ![r].pc = "done", ![r].outcome = "invalid"]
            ELSE /\ appts' = save_instance(appts, q.pk,
                                 cancel_appointment(q.inst, q.reason, q.user, now))
                 /\ reqs' = [reqs EXCEPT ![r].pc = "done", ![r].outcome = "success"]

\* The rest of confirm_appointment_view after the load.
ConfirmFinish(r) ==
    LET q == reqs[r] IN
    /\ q.pc = "loaded" /\ q.op = "confirm"
    /\ UNCHANGED <<nextPk, doctors, now, response, pvars, qvars, wvars>>
    /\ IF q.inst.status = "scheduled"
       THEN /\ appts' = save_instance(appts, q.pk, mark_confirmed(q.inst, now))
            /\ reqs' = [reqs EXCEPT ![r].pc = "done", ![r].outcome = "success"]
       ELSE /\ UNCHANGED appts
            /\ reqs' = [reqs EXCEPT ![r].pc = "done", ![r].outcome = "warning"]

\* The rest of checkin_appointment_view after the load.
CheckinFinish(r) ==
    LET q == reqs[r] IN
    /\ q.pc = "loaded" /\ q.op = "checkin"
    /\ UNCHANGED <<nextPk, doctors, now, response, pvars, qvars, wvars>>
    /\ IF q.inst.status \in {"scheduled", "confirmed"}
       THEN /\ appts' = save_instance(appts, q.pk, mark_checked_in(q.inst, now))
            /\ reqs' = [reqs EXCEPT ![r].pc = "done", ![r].outcome = "success"]
       ELSE /\ UNCHANGED appts
            /\ reqs' = [reqs EXCEPT ![r].pc = "done", ![r].outcome = "warning"]

\* The rest of a POST to reschedule_appointment_view after the load: the
\* form is validated against the table, the new row is created from the
\* loaded instance, and the loaded instance is saved as rescheduled.
RescheduleFinish(r) ==
    LET q       == reqs[r]
        a       == q.inst
        d       == q.appointment_date
        t       == q.appointment_time
        v       == AppointmentRescheduleForm_clean(appts, q.pk, a, d, t, now)
        created == Reschedule_created(a, q.pk, d, t)
        db1     == (nextPk :> created) @@ appts
    IN
    /\ q.pc = "loaded" /\ q.op = "reschedule"
    /\ UNCHANGED <<doctors, now, response, pvars, qvars, wvars>>
    /\ IF ~can_reschedule(a, now)
       THEN /\ UNCHANGED <<appts, nextPk>>
            /\ reqs' = [reqs EXCEPT ![r].pc = "done", ![r].outcome = "error"]
       ELSE IF v # "ok"
            THEN /\ UNCHANGED <<appts, nextPk>>
                 /\ reqs' = [reqs EXCEPT ![r].pc = "done", ![r].outcome = "invalid"]
            ELSE IF IntegrityError(appts, nextPk, created)
                 THEN /\ UNCHANGED <<appts, nextPk>>
                      /\ reqs' = [reqs EXCEPT ![r].pc = "done",
                                               ![r].outcome = "exception"]
                 ELSE \E id \in generate_appointment_id(db1, now) :
                        LET saved == [created EXCEPT !.appointment_id = id] IN
                        /\ nextPk' = nextPk + 1
                        /\ IF IntegrityError(db1, nextPk, saved)
                           THEN /\ appts' = db1
                                /\ reqs' = [reqs EXCEPT ![r].pc = "done",
                                                         ![r].outcome = "exception"]
                           ELSE /\ appts' = save_instance([db1 EXCEPT ![nextPk] = saved],
                                                          q.pk, Reschedule_original(a))
                                /\ reqs' = [reqs EXCEPT ![r].pc = "done",
                                                         ![r].outcome = "success"]

\* One appointment of doctor 1 and NumReqs overlapping requests on it.  A
\* reschedule asks for the second time of today or of the day after.
TransitionOps == {"cancel", "confirm", "checkin", "reschedule"}
NextOverlap ==
    \/ \E det \in Details : ScheduleAppointment(1, 1, 0, 0, det)
    \/ \E r \in Reqs, op \in TransitionOps, pk \in Pks, d \in 0..NumDates :
           LoadAppointment(r, op, pk, 1, "patient asked", d, 1)
    \/ \E r \in Reqs : CancelFinish(r)
    \/ \E r \in Reqs : ConfirmFinish(r)
    \/ \E r \in Reqs : CheckinFinish(r)
    \/ \E r \in Reqs : RescheduleFinish(r)

SpecOverlap == Init /\ [][NextOverlap]_vars

\* ------------------------------------------- overlapping enqueue requests
\* An enqueue request of add_to_queue_view taken statement by statement:
\* form.is_valid(), then the staff lookup and form.save(commit=False), which
\* reads the table for the queue number and the estimated wait, then
\* queue_entry.save().
EnqueueValidate(r, user, patient, doctor, priority) ==
    /\ qreqs[r].pc = "idle"
    /\ \A r2 \in Reqs : r2 < r => qreqs[r2].pc # "idle"
    /\ qreqs' = [qreqs EXCEPT ![r] =
          [pc |-> IF QueueForm_is_valid(patients, doctors, patient, doctor, priority)
                  THEN "valid" ELSE "done",
           op |-> "enqueue", user |-> user, patient |-> patient, doctor |-> doctor,
           priority |-> priority, entry |-> <<>>,
           outcome |-> IF QueueForm_is_valid(patients, doctors, patient, doctor, priority)
                       THEN "none" ELSE "invalid",
           stored |-> 0]]
    /\ UNCHANGED <<appts, nextPk, doctors, now, response, reqs, pvars, queue, nextQ, wvars>>

\* FrontDeskStaff lookup and form.save(commit=False, added_by=staff_profile)
EnqueuePrepare(r) ==
    LET q == qreqs[r] IN
    /\ q.pc = "valid"
    /\ qreqs' = IF q.user \notin Staff
                THEN [qreqs EXCEPT ![r].pc = "done", ![r].outcome = "error"]
                ELSE [qreqs EXCEPT ![r].pc = "save",
                                   ![r].entry = QueueForm_save(queue, q.patient, q.doctor,
                                                               q.priority, q.user, now)]
    /\ UNCHANGED <<appts, nextPk, doctors, now, response, reqs, pvars, queue, nextQ, wvars>>

\* queue_entry.save(): the insert, with arrival_time stamped by it.
EnqueueSave(r) ==
    LET q     == qreqs[r]
        entry == [q.entry EXCEPT !.arrival_time = now]
    IN
    /\ q.pc = "save"
    /\ IF QueueNumberTaken(queue, nextQ, entry.queue_number)
       THEN /\ qreqs' = [qreqs EXCEPT ![r].pc = "done", ![r].outcome = "exception"]
            /\ UNCHANGED <<queue, nextQ>>
       ELSE /\ nextQ <= MaxQueue
            /\ queue' = (nextQ :> entry) @@ queue
            /\ nextQ' = nextQ + 1
            /\ qreqs' = [qreqs EXCEPT ![r].pc = "done", ![r].outcome = "success",
                                      ![r].stored = nextQ]
    /\ UNCHANGED <<appts, nextPk, doctors, now, response, reqs, pvars, wvars>>

NextQueueConc ==
    \/ \E r \in Reqs, user \in Users, patient \in Patients, doctor \in Doctors \cup {NULL},
          priority \in PRIORITY_CHOICES :
           EnqueueValidate(r, user, patient, doctor, priority)
    \/ \E r \in Reqs : EnqueuePrepare(r)
    \/ \E r \in Reqs : EnqueueSave(r)
    \/ \E pk \in QPks, new_status \in Queue_STATUS_CHOICES :
           UpdateQueueStatus(pk, "POST", new_status)
    \/ \E pk \in QPks : RemoveFromQueue(pk, "POST")

\* Enqueue requests that overlap, among status changes and cancellations.
\* The clock stands still: every request falls on the same date.
SpecQueueConc == Init /\ [][NextQueueConc]_vars

\* ============================================================== deletions
\* The table db without the rows whose column col holds key.
Cascade(db, col, key) ==
    [k \in {j \in DOMAIN db : db[j][col] # key} |-> db[k]]

\* on_delete=SET_NULL of Appointment.rescheduled_from: the rows of db that
\* point to an appointment that is gone.
SetNullReschedule(db) ==
    [k \in DOMAIN db |->
        IF db[k].rescheduled_from # NULL /\ db[k].rescheduled_from \notin DOMAIN db
        THEN [db[k] EXCEPT !.rescheduled_from = NULL]
        ELSE db[k]]

\* DoctorDeleteView: the doctor row is deleted, and with it (on_delete=CASCADE)
\* the doctor's appointments, queue entries and availability windows.
DoctorDelete(doctor, method) ==
    /\ doctor \in DOMAIN doctors
    /\ UNCHANGED <<nextPk, now, reqs, pvars, nextQ, qreqs, nextW, nextS>>
    /\ IF method # "POST"
       THEN Respond("doctor_delete", "form")
            /\ UNCHANGED <<doctors, appts, queue, windows, schedules>>
       ELSE /\ doctors' = [k \in DOMAIN doctors \ {doctor} |-> doctors[k]]
            /\ appts' = SetNullReschedule(Cascade(appts, "doctor", doctor))
            /\ queue' = Cascade(queue, "doctor", doctor)
            /\ windows' = Cascade(windows, "doctor", doctor)
            /\ schedules' = Cascade(schedules, "doctor", doctor)
            /\ Respond("doctor_delete", "success")

\* PatientDeleteView overrides delete() to clear is_active.  Whether a POST
\* reaches delete() depends on the Django release: up to 3.2 post() calls it;
\* from 4.0 on post() goes through form_valid(), which deletes the row, and
\* the patient's appointments and queue entries go with it (CASCADE).
PatientDelete(patient, method) ==
    /\ patient \in DOMAIN patients
    /\ UNCHANGED <<nextPk, doctors, now, reqs, nextQ, qreqs, wvars, nextPatient>>
    /\ IF method # "POST"
       THEN Respond("patient_delete", "form") /\ UNCHANGED <<patients, appts, queue>>
       ELSE /\ Respond("patient_delete", "success")
            /\ \/ /\ patients' = [patients EXCEPT ![patient].is_active = FALSE]
                  /\ UNCHANGED <<appts, queue>>
               \/ /\ patients' = [k \in DOMAIN patients \ {patient} |-> patients[k]]
                  /\ appts' = SetNullReschedule(Cascade(appts, "patient", patient))
                  /\ queue' = Cascade(queue, "patient", patient)

\* The exception int() raises, in place of a value.
ValueError == <<"ValueError">>

\* PatientForm.clean_patient_id on the cleaned field value: an empty value
\* is replaced by the identifier after the one of the patient with the
\* highest primary key (order_by('-id').first()).
clean_patient_id(pats, patient_id) ==
    IF patient_id = <<>>
    THEN IF DOMAIN pats # {}
         THEN LET last_patient == pats[CHOOSE k \in DOMAIN pats : \A j \in DOMAIN pats : j <= k]
                  tail == replace_PAT(last_patient.patient_id)
              IN  IF IntParses(tail) THEN format_patient_id(int(tail) + 1)
                  ELSE ValueError
         ELSE format_patient_id(1)
    ELSE patient_id

\* patient_id is unique=True
PatientIdTaken(pats, patient_id) ==
    \E k \in DOMAIN pats : pats[k].patient_id = patient_id

\* PatientForm, the patient_id field: how full_clean ends and with which
\* value.  The model column has no blank=True, so the form field is required
\* and Field.clean rejects an empty value before clean_patient_id is called;
\* validate_unique then checks the unique column.
PatientForm_patient_id(pats, patient_id) ==
    IF patient_id = <<>>
    THEN [outcome |-> "invalid", patient_id |-> patient_id]
    ELSE LET cleaned == clean_patient_id(pats, patient_id) IN
         IF cleaned = ValueError THEN [outcome |-> "exception", patient_id |-> patient_id]
         ELSE IF PatientIdTaken(pats, cleaned)
         THEN [outcome |-> "invalid", patient_id |-> cleaned]
         ELSE [outcome |-> "ok", patient_id |-> cleaned]

\* PatientCreateView (POST): register a patient; the other fields are valid.
PatientCreate(user, patient_id) ==
    LET f == PatientForm_patient_id(patients, patient_id) IN
    /\ UNCHANGED <<appts, nextPk, doctors, now, reqs, qvars, wvars>>
    /\ IF f.outcome # "ok"
       THEN Respond("patient_create", f.outcome) /\ UNCHANGED pvars
       ELSE /\ nextPatient <= NumPatients + MaxNewPatients
            /\ patients' = (nextPatient :>
                               Patient(f.patient_id, IF user \in Staff THEN user ELSE NULL))
                           @@ patients
            /\ nextPatient' = nextPatient + 1
            /\ Respond("patient_create", "success")

\* What the patient_id box of the registration form is posted with: left
\* empty, the next and a later identifier of the scheme, one already stored,
\* and one outside the scheme.
PostedPatientIds ==
    { <<>>, format_patient_id(NumPatients + 1), format_patient_id(7),
      format_patient_id(1), <<"M", "R", "N", "7">> }

PatientPks == 1..(NumPatients + MaxNewPatients)

\* Patients are registered, deactivated and deleted.
NextPatients ==
    \/ \E user \in Users, patient_id \in PostedPatientIds : PatientCreate(user, patient_id)
    \/ \E patient \in PatientPks, method \in Methods : PatientDelete(patient, method)

SpecPatients == Init /\ [][NextPatients]_vars

\* Bookings and walk-ins while doctors are deleted and patients deactivated.
NextAdmin ==
    \/ \E doctor \in Doctors, d \in Dates, t \in Times, det \in Details :
           ScheduleAppointment(1, doctor, d, t, det)
    \/ \E pk \in Pks : CancelAppointment(pk, 1, "POST", "patient asked")
    \/ \E pk \in Pks, d \in Dates, t \in Times :
           RescheduleAppointment(pk, "POST", d, t)
    \/ \E patient \in Patients, doctor \in Doctors :
           nextQ <= MaxDeskQueue /\ AddToQueue(1, "POST", patient, doctor, "normal")
    \/ \E pk \in QPks : RemoveFromQueue(pk, "POST")
    \/ \E doctor \in Doctors : DoctorDelete(doctor, "POST")
    \/ \E patient \in Patients : PatientDelete(patient, "POST")

SpecAdmin == Init /\ [][NextAdmin]_vars

\* ===================================================== availability windows
\* A DoctorAvailability row (unavailability_reason, a free text no rule
\* reads, and the auto timestamps are left out).
DoctorAvailability(doctor, d, start_time, end_time, is_available, max_appointments) ==
    [ doctor           |-> doctor,
      date             |-> d,
      start_time       |-> start_time,
      end_time         |-> end_time,
      is_available     |-> is_available,
      max_appointments |-> max_appointments ]

\* DoctorAvailability.get_booked_slots: the active appointments of the
\* window's doctor on its date with start_time <= time < end_time.
get_booked_slots(db, w) ==
    Cardinality({k \in DOMAIN db :
        /\ db[k].doctor = w.doctor
        /\ db[k].appointment_date = w.date
        /\ db[k].appointment_time >= w.start_time
        /\ db[k].appointment_time < w.end_time
        /\ db[k].status \in ACTIVE_STATUSES})

\* DoctorAvailability.has_available_slots
has_available_slots(db, w) ==
    IF ~w.is_available THEN FALSE
    ELSE get_booked_slots(db, w) < w.max_appointments

\* The is_booked query with the status filter dropped.
is_booked_anystatus(db, w, slot_time) ==
    \E k \in DOMAIN db :
        /\ db[k].doctor = w.doctor
        /\ db[k].appointment_date = w.date
        /\ db[k].appointment_time = slot_time

\* get_available_time_slots, the is_booked query of one slot.
is_booked(db, w, slot_time) ==
    \E k \in DOMAIN db :
        /\ db[k].doctor = w.doctor
        /\ db[k].appointment_date = w.date
        /\ db[k].appointment_time = slot_time
        /\ db[k].status \in ACTIVE_STATUSES

\* get_available_time_slots, the while loop: slots so far, current_time next.
RECURSIVE slots_loop(_, _, _, _, _)
slots_loop(db, w, current_time, slot_duration, slots) ==
    IF current_time < w.end_time
    THEN slots_loop(db, w, current_time + slot_duration, slot_duration,
             Append(slots, [time |-> current_time,
                            available |-> ~is_booked(db, w, current_time)]))
    ELSE slots

\* DoctorAvailability.get_available_time_slots(slot_duration)
get_available_time_slots(db, w, slot_duration) ==
    slots_loop(db, w, w.start_time, slot_duration, <<>>)

\* The default of the slot_duration parameter, in minutes.
DefaultSlotDuration == 30

\* unique_together = [doctor, date, start_time]: a window other than pk holds
\* the triple.
WindowTaken(wdb, pk, doctor, d, start_time) ==
    \E k \in DOMAIN wdb :
        /\ k # pk
        /\ wdb[k].doctor = doctor
        /\ wdb[k].date = d
        /\ wdb[k].start_time = start_time

\* DoctorAvailabilityForm.is_valid for the window pk (0: a new one): the
\* doctor exists, clean() wants start_time < end_time, and validate_unique
\* checks unique_together.  max_appointments is any integer.
DoctorAvailabilityForm_is_valid(wdb, docs, pk, doctor, d, start_time, end_time) ==
    /\ doctor \in DOMAIN docs
    /\ ~(start_time >= end_time)
    /\ ~WindowTaken(wdb, pk, doctor, d, start_time)

\* DoctorAvailabilityCreateView (POST)
AvailabilityCreate(doctor, d, start_time, end_time, is_available, max_appointments) ==
    /\ UNCHANGED <<appts, nextPk, doctors, now, reqs, pvars, qvars, svars>>
    /\ IF ~DoctorAvailabilityForm_is_valid(windows, doctors, 0, doctor, d, start_time, end_time)
       THEN Respond("availability_create", "invalid") /\ UNCHANGED <<windows, nextW>>
       ELSE /\ nextW <= MaxWindows
            /\ windows' = (nextW :> DoctorAvailability(doctor, d, start_time, end_time,
                                        is_available, max_appointments)) @@ windows
            /\ nextW' = nextW + 1
            /\ Respond("availability_create", "success")

\* DoctorAvailabilityUpdateView (POST)
AvailabilityUpdate(pk, doctor, d, start_time, end_time, is_available, max_appointments) ==
    /\ pk \in DOMAIN windows
    /\ UNCHANGED <<appts, nextPk, doctors, now, reqs, pvars, qvars, nextW, svars>>
    /\ IF ~DoctorAvailabilityForm_is_valid(windows, doctors, pk, doctor, d, start_time, end_time)
       THEN Respond("availability_update", "invalid") /\ UNCHANGED windows
       ELSE /\ windows' = [windows EXCEPT ![pk] =
                              DoctorAvailability(doctor, d, start_time, end_time,
                                                 is_available, max_appointments)]
            /\ Respond("availability_update", "success")

\* DoctorAvailabilityDeleteView: the window row is deleted.
AvailabilityDelete(pk, method) ==
    /\ pk \in DOMAIN windows
    /\ UNCHANGED <<appts, nextPk, doctors, now, reqs, pvars, qvars, nextW, svars>>
    /\ IF method # "POST"
       THEN Respond("availability_delete", "form") /\ UNCHANGED windows
       ELSE /\ windows' = [k \in DOMAIN windows \ {pk} |-> windows[k]]
            /\ Respond("availability_delete", "success")

\* filter(doctor, date, is_available=True).first() under Meta.ordering
\* [date, start_time]: the pk of the earliest such window, or NULL.
first_available_window(wdb, doctor, d) ==
    LET ws == {k \in DOMAIN wdb : /\ wdb[k].doctor = doctor
                                  /\ wdb[k].date = d
                                  /\ wdb[k].is_available}
    IN  IF ws = {} THEN NULL
        ELSE CHOOSE k \in ws : \A j \in ws : wdb[k].start_time <= wdb[j].start_time

\* get_available_slots_ajax (GET): the slots of the first available window of
\* the doctor on the date, with the default slot duration.  strftime('%H:%M')
\* keeps hour and minute, which is all of a time given in minutes.
GetAvailableSlotsAjax(doctor_id, d) ==
    /\ UNCHANGED <<appts, nextPk, doctors, now, reqs, pvars, qvars, wvars>>
    /\ IF doctor_id = NULL
       THEN response' = [op |-> "available_slots", outcome |-> "missing"]
       ELSE IF doctor_id \notin DOMAIN doctors
       THEN response' = [op |-> "available_slots", outcome |-> "invalid"]
       ELSE LET availability == first_available_window(windows, doctor_id, d) IN
            IF availability = NULL
            THEN response' = [op |-> "available_slots", outcome |-> "success",
                              doctor |-> doctor_id, available |-> FALSE, slots |-> <<>>]
            ELSE response' = [op |-> "available_slots", outcome |-> "success",
                              doctor |-> doctor_id, available |-> TRUE,
                              slots |-> get_available_time_slots(appts,
                                            windows[availability], DefaultSlotDuration)]

\* A call of DoctorAvailability.get_available_time_slots on the window pk.
GetAvailableTimeSlots(pk, slot_duration) ==
    /\ pk \in DOMAIN windows
    /\ UNCHANGED <<appts, nextPk, doctors, now, reqs, pvars, qvars, wvars>>
    /\ response' = [op |-> "get_available_time_slots", outcome |-> "success",
                    window |-> pk, slot_duration |-> slot_duration,
                    slots |-> get_available_time_slots(appts, windows[pk], slot_duration)]

\* Windows of doctor 1 are created, edited and deleted while appointments
\* are booked, moved and cancelled.
Capacities == 1..MaxCapacity
WPks       == 1..MaxWindows
NextAvail ==
    \/ \E start_time \in Times, end_time \in 1..TimesPerDay,
          is_available \in BOOLEAN, max_appointments \in Capacities :
           AvailabilityCreate(1, 0, start_time, end_time, is_available, max_appointments)
    \/ \E pk \in WPks, start_time \in Times, end_time \in 1..TimesPerDay,
          max_appointments \in Capacities :
           AvailabilityUpdate(pk, 1, 0, start_time, end_time, TRUE, max_appointments)
    \/ \E pk \in WPks : AvailabilityDelete(pk, "POST")
    \/ \E d \in Dates, t \in Times, det \in Details :
           ScheduleAppointment(1, 1, d, t, det)
    \/ \E pk \in Pks, d \in Dates, t \in Times :
           RescheduleAppointment(pk, "POST", d, t)
    \/ \E pk \in Pks : CancelAppointment(pk, 1, "POST", "patient asked")

SpecAvail == Init /\ [][NextAvail]_vars

\* ------------------------------------------------------ weekly schedules
\* DoctorSchedule.DAYS_OF_WEEK
DAYS_OF_WEEK == 0..6

\* A DoctorSchedule row.
DoctorSchedule(doctor, day_of_week, start_time, end_time, slot_duration, is_active) ==
    [ doctor        |-> doctor,
      day_of_week   |-> day_of_week,
      start_time    |-> start_time,
      end_time      |-> end_time,
      slot_duration |-> slot_duration,
      is_active     |-> is_active ]

\* unique_together = [doctor, day_of_week, start_time]: a row other than pk
\* holds the triple.
ScheduleTaken(sdb, pk, doctor, day_of_week, start_time) ==
    \E k \in DOMAIN sdb :
        /\ k # pk
        /\ sdb[k].doctor = doctor
        /\ sdb[k].day_of_week = day_of_week
        /\ sdb[k].start_time = start_time

\* DoctorScheduleForm.clean: it reads start_time and end_time from
\* cleaned_data and ends there; it raises nothing and returns None, which
\* full_clean takes as "cleaned_data unchanged".
DoctorScheduleForm_clean(start_time, end_time) == TRUE

\* DoctorScheduleForm.is_valid for the row pk (0: a new one): the doctor
\* exists, the day is one of the choices, clean(), and validate_unique on
\* unique_together.
DoctorScheduleForm_is_valid(sdb, docs, pk, doctor, day_of_week, start_time, end_time) ==
    /\ doctor \in DOMAIN docs
    /\ day_of_week \in DAYS_OF_WEEK
    /\ DoctorScheduleForm_clean(start_time, end_time)
    /\ ~ScheduleTaken(sdb, pk, doctor, day_of_week, start_time)

\* DoctorScheduleCreateView (POST)
DoctorScheduleCreate(doctor, day_of_week, start_time, end_time, slot_duration, is_active) ==
    /\ UNCHANGED <<appts, nextPk, doctors, now, reqs, pvars, qvars, windows, nextW>>
    /\ IF ~DoctorScheduleForm_is_valid(schedules, doctors, 0, doctor, day_of_week,
                                       start_time, end_time)
       THEN Respond("schedule_create", "invalid") /\ UNCHANGED svars
       ELSE /\ nextS <= MaxSchedules
            /\ schedules' = (nextS :> DoctorSchedule(doctor, day_of_week, start_time,
                                          end_time, slot_duration, is_active)) @@ schedules
            /\ nextS' = nextS + 1
            /\ Respond("schedule_create", "success")

\* DoctorScheduleUpdateView (POST)
DoctorScheduleUpdate(pk, doctor, day_of_week, start_time, end_time, slot_duration, is_active) ==
    /\ pk \in DOMAIN schedules
    /\ UNCHANGED <<appts, nextPk, doctors, now, reqs, pvars, qvars, windows, nextW, nextS>>
    /\ IF ~DoctorScheduleForm_is_valid(schedules, doctors, pk, doctor, day_of_week,
                                       start_time, end_time)
       THEN Respond("schedule_update", "invalid") /\ UNCHANGED schedules
       ELSE /\ schedules' = [schedules EXCEPT ![pk] =
                                DoctorSchedule(doctor, day_of_week, start_time,
                                               end_time, slot_duration, is_active)]
            /\ Respond("schedule_update", "success")

\* DoctorScheduleDeleteView: the row is deleted.
DoctorScheduleDelete(pk, method) ==
    /\ pk \in DOMAIN schedules
    /\ UNCHANGED <<appts, nextPk, doctors, now, reqs, pvars, qvars, windows, nextW, nextS>>
    /\ IF method # "POST"
       THEN Respond("schedule_delete", "form") /\ UNCHANGED schedules
       ELSE /\ schedules' = [k \in DOMAIN schedules \ {pk} |-> schedules[k]]
            /\ Respond("schedule_delete", "success")

\* Weekly schedules and dated windows are created, edited and deleted; the
\* end time posted may lie before the start time.
SPks     == 1..MaxSchedules
EndTimes == 0..TimesPerDay
PostedDays == {0, 6}
NextTemplates ==
    \/ \E doctor \in Doctors, day_of_week \in PostedDays,
          start_time \in Times, end_time \in EndTimes :
           DoctorScheduleCreate(doctor, day_of_week, start_time, end_time,
                                DefaultSlotDuration, TRUE)
    \/ \E pk \in SPks, day_of_week \in PostedDays,
          start_time \in Times, end_time \in EndTimes, is_active \in BOOLEAN :
           DoctorScheduleUpdate(pk, 1, day_of_week, start_time, end_time,
                                DefaultSlotDuration, is_active)
    \/ \E pk \in SPks : DoctorScheduleDelete(pk, "POST")
    \/ \E start_time \in Times, end_time \in EndTimes :
           AvailabilityCreate(1, 0, start_time, end_time, TRUE, 1)
    \/ \E pk \in WPks, start_time \in Times, end_time \in EndTimes :
           AvailabilityUpdate(pk, 1, 0, start_time, end_time, TRUE, 1)
    \/ \E pk \in WPks : AvailabilityDelete(pk, "POST")

SpecTemplates == Init /\ [][NextTemplates]_vars

\* ----------------------------------------------------------- slot listings
\* The slot listing reads the tables and nothing else, so it is explored from
\* every small pair of tables: one or two windows of doctor 1 on date 0 and
\* up to two appointments on that date, with times in minutes.
SlotClock     == {k * SlotStep : k \in 0..MaxSlotSteps}
SlotDurations == {15, 30, 45}
SlotStatuses  == {"scheduled", "checked_in", "cancelled"}

\* A stored appointment of the patient of Details at time t with status st.
BookedRow(pk, doctor, t, st) ==
    [ Appointment(doctor, 0, t, CHOOSE det \in Details : TRUE, 1, NULL)
        EXCEPT !.appointment_id = <<0, pk>>, !.status = st ]

BookedTables ==
    {<<>>}
    \cup { <<BookedRow(1, 1, t, st)>> : t \in SlotClock, st \in SlotStatuses }
    \cup { <<BookedRow(1, 1, tt[1], "scheduled"), BookedRow(2, doctor, tt[2], st)>> :
             tt \in {x \in SlotClock \X SlotClock : x[1] < x[2]},
             doctor \in Doctors, st \in SlotStatuses }

SlotWindows ==
    { DoctorAvailability(1, 0, se[1], se[2], TRUE, MaxCapacity) :
        se \in {x \in SlotClock \X SlotClock : x[1] < x[2]} }

\* Two windows of a doctor on a date differ in start_time (unique_together).
WindowPairs == {x \in SlotWindows \X SlotWindows : x[1].start_time < x[2].start_time}

WindowTables ==
    { <<w>> : w \in SlotWindows }
    \cup { <<[x[1] EXCEPT !.is_available = FALSE], x[2]>> : x \in WindowPairs }
    \cup { <<x[2], x[1]>> : x \in WindowPairs }

InitSlots ==
    /\ appts \in BookedTables
    /\ nextPk = Len(appts) + 1
    /\ windows \in WindowTables
    /\ nextW = Len(windows) + 1
    /\ schedules = <<>>
    /\ nextS = 1
    /\ doctors = [d \in Doctors |-> [is_available |-> TRUE, accepts_walkins |-> TRUE]]
    /\ now = 0
    /\ response = [op |-> "none", outcome |-> "none"]
    /\ reqs = [r \in Reqs |-> Idle]
    /\ patients = [p \in Patients |-> Patient(format_patient_id(p), NULL)]
    /\ nextPatient = NumPatients + 1
    /\ queue = <<>>
    /\ nextQ = 1
    /\ qreqs = [r \in Reqs |-> Idle]

NextSlots ==
    \/ \E pk \in WPks, slot_duration \in SlotDurations :
           GetAvailableTimeSlots(pk, slot_duration)
    \/ \E doctor_id \in Doctors \cup {NULL, NumDoctors + 1} :
           GetAvailableSlotsAjax(doctor_id, 0)

SpecSlots == InitSlots /\ [][NextSlots]_vars

\* ================================================================= claims
\* Some row other than pk holds (doctor, d, t) with one of the statuses sts.
HeldAt(db, pk, doctor, d, t, sts) ==
    \E q \in DOMAIN db :
        /\ q # pk
        /\ db[q].doctor = doctor
        /\ db[q].appointment_date = d
        /\ db[q].appointment_time = t
        /\ db[q].status \in sts

Active   == {"scheduled", "confirmed", "checked_in"}
Inactive == {"cancelled", "rescheduled", "completed", "no_show"}

\* C3: scheduleAppointment for a date/time strictly before the clock, or for a
\* slot that an appointment with status scheduled, confirmed or checked_in
\* holds, is rejected and leaves the appointment table as it was; a date/time
\* equal to or after the clock is never what the form rejects as past, and is
\* accepted when nothing else stands against it.
C3_ScheduleRejectsPastAndConflict ==
    [][ response'.op = "schedule" =>
        \A user \in Users, doctor \in Doctors, d \in Dates, t \in Times, det \in Details :
          ScheduleAppointment(user, doctor, d, t, det) =>
            /\ (combine(d, t) < now \/ HeldAt(appts, 0, doctor, d, t, Active))
                 => /\ response'.outcome = "invalid"
                    /\ appts' = appts
                    /\ nextPk' = nextPk
            /\ combine(d, t) >= now
                 => /\ AppointmentForm_clean(appts, 0, doctor, d, t, now) # "past"
                    /\ (/\ ~HeldAt(appts, 0, doctor, d, t, STATUS_CHOICES)
                        /\ user \in Staff
                        /\ doctors[doctor].is_available)
                         => /\ response'.outcome = "success"
                            /\ DOMAIN appts' = DOMAIN appts \cup {nextPk}
                            /\ appts'[nextPk].status = "scheduled"
      ]_vars

\* C3 witness: at clock 0 no date/time is past, so the scheduleAppointment
\* just rejected was refused for its slot, held by an active appointment.
C3_Witness ==
    /\ now = 0
    /\ response = [op |-> "schedule", outcome |-> "invalid"]
    /\ appts # <<>>
    /\ \A q \in DOMAIN appts : appts[q].status \in Active

\* C4 (as claimed): a slot whose only appointments are cancelled, rescheduled,
\* completed or no_show is free: scheduleAppointment and rescheduleAppointment
\* to it at a date/time that is not past succeed and store a new appointment
\* with status scheduled.
C4_InactiveSlotIsFree ==
    [][ /\ response'.op = "schedule" =>
           \A user \in Staff, doctor \in Doctors, d \in Dates, t \in Times, det \in Details :
             ( /\ ScheduleAppointment(user, doctor, d, t, det)
               /\ HeldAt(appts, 0, doctor, d, t, Inactive)
               /\ ~HeldAt(appts, 0, doctor, d, t, STATUS_CHOICES \ Inactive)
               /\ combine(d, t) >= now
               /\ doctors[doctor].is_available )
             => /\ response'.outcome = "success"
                /\ DOMAIN appts' = DOMAIN appts \cup {nextPk}
                /\ appts'[nextPk].status = "scheduled"
        /\ response'.op = "reschedule" =>
           \A pk \in Pks, d \in Dates, t \in Times :
             ( /\ RescheduleAppointment(pk, "POST", d, t)
               /\ can_reschedule(appts[pk], now)
               /\ HeldAt(appts, 0, appts[pk].doctor, d, t, Inactive)
               /\ ~HeldAt(appts, 0, appts[pk].doctor, d, t, STATUS_CHOICES \ Inactive)
               /\ combine(d, t) >= now )
             => /\ response'.outcome = "success"
                /\ DOMAIN appts' = DOMAIN appts \cup {nextPk}
                /\ appts'[nextPk].status = "scheduled"
      ]_vars

\* C6 (as claimed): a rescheduleAppointment whose new slot is refused ends as
\* a reported validation error or conflict, creates nothing and leaves the
\* original as it was; and the new slot is accepted in exactly the states in
\* which scheduleAppointment for that doctor, date and time is accepted.
C6_RescheduleValidatesAsSchedule ==
    [][ response'.op = "reschedule" =>
        \A pk \in Pks, d \in Dates, t \in Times :
          ( RescheduleAppointment(pk, "POST", d, t) /\ can_reschedule(appts[pk], now) )
          => /\ response'.outcome # "success"
                => /\ response'.outcome \in {"invalid", "error"}
                   /\ appts' = appts
             /\ response'.outcome = "success"
                <=> AppointmentForm_validate(appts, doctors, 0, appts[pk].doctor, d, t, now) = "ok"
      ]_vars

\* C5: a successful rescheduleAppointment adds exactly one appointment, which
\* carries the original's patient, doctor, duration, type and reason, has
\* status scheduled, the new date/time and the original as rescheduled_from;
\* the original stays stored with status rescheduled and nothing else
\* changes; and in every state the rescheduled_from references of every
\* appointment lead to an appointment without one (no cycle).
RECURSIVE ChainEndsAtRoot(_, _, _)
ChainEndsAtRoot(db, p, fuel) ==
    IF p \notin DOMAIN db THEN FALSE
    ELSE IF db[p].rescheduled_from = NULL THEN TRUE
    ELSE IF fuel = 0 THEN FALSE
    ELSE ChainEndsAtRoot(db, db[p].rescheduled_from, fuel - 1)

ChainsAcyclic ==
    \A p \in DOMAIN appts : ChainEndsAtRoot(appts, p, Cardinality(DOMAIN appts))

C5_RescheduleForksChain ==
    [][ /\ ChainsAcyclic'
        /\ (response'.op = "reschedule" /\ response'.outcome = "success") =>
           \A pk \in Pks, d \in Dates, t \in Times :
             RescheduleAppointment(pk, "POST", d, t) =>
               /\ nextPk \notin DOMAIN appts
               /\ DOMAIN appts' = DOMAIN appts \cup {nextPk}
               /\ appts'[nextPk].patient = appts[pk].patient
               /\ appts'[nextPk].doctor = appts[pk].doctor
               /\ appts'[nextPk].duration = appts[pk].duration
               /\ appts'[nextPk].appointment_type = appts[pk].appointment_type
               /\ appts'[nextPk].reason_for_visit = appts[pk].reason_for_visit
               /\ appts'[nextPk].status = "scheduled"
               /\ appts'[nextPk].appointment_date = d
               /\ appts'[nextPk].appointment_time = t
               /\ appts'[nextPk].rescheduled_from = pk
               /\ appts'[pk] = [appts[pk] EXCEPT !.status = "rescheduled"]
               /\ \A q \in DOMAIN appts \ {pk} : appts'[q] = appts[q]
      ]_vars

\* C5 witness: a reschedule just succeeded: the new appointment points back
\* at its original, which is stored with status rescheduled.
C5_Witness ==
    /\ response = [op |-> "reschedule", outcome |-> "success"]
    /\ \E p, q \in DOMAIN appts :
          /\ appts[q].rescheduled_from = p
          /\ appts[q].status = "scheduled"
          /\ appts[p].status = "rescheduled"

\* C7: cancelAppointment and rescheduleAppointment are refused, and change no
\* record, whenever the appointment's status is not scheduled or confirmed or
\* its date/time is before the clock.
C7_CancelRescheduleRefused ==
    [][ /\ response'.op = "cancel" =>
           \A pk \in Pks, user \in Users, method \in Methods, reason \in CancelReasons :
             ( /\ CancelAppointment(pk, user, method, reason)
               /\ \/ appts[pk].status \notin {"scheduled", "confirmed"}
                  \/ combine(appts[pk].appointment_date, appts[pk].appointment_time) < now )
             => /\ response'.outcome = "error"
                /\ UNCHANGED <<appts, nextPk, doctors>>
        /\ response'.op = "reschedule" =>
           \A pk \in Pks, method \in Methods, d \in Dates, t \in Times :
             ( /\ RescheduleAppointment(pk, method, d, t)
               /\ \/ appts[pk].status \notin {"scheduled", "confirmed"}
                  \/ combine(appts[pk].appointment_date, appts[pk].appointment_time) < now )
             => /\ response'.outcome = "error"
                /\ UNCHANGED <<appts, nextPk, doctors>>
      ]_vars

\* C7 witness: a cancel was just refused while every stored appointment is
\* checked in or completed.
C7_Witness ==
    /\ response = [op |-> "cancel", outcome |-> "error"]
    /\ appts # <<>>
    /\ \A q \in DOMAIN appts : appts[q].status \in {"checked_in", "completed"}

\* C8: cancelling an eligible appointment sets its status to cancelled and
\* records the reason, the acting staff member and the clock; a cancel
\* attempt on a cancelled appointment is rejected and leaves every record,
\* so also the recorded status, reason, actor and timestamp, as it was.
C8_CancelOnce ==
    [][ response'.op = "cancel" =>
        \A pk \in Pks, user \in Users, method \in Methods, reason \in CancelReasons :
          CancelAppointment(pk, user, method, reason) =>
            /\ ( /\ appts[pk].status \in {"scheduled", "confirmed"}
                 /\ combine(appts[pk].appointment_date, appts[pk].appointment_time) >= now
                 /\ method = "POST" /\ reason # "" /\ user \in Staff )
               => /\ response'.outcome = "success"
                  /\ appts' = [appts EXCEPT ![pk] =
                                 [appts[pk] EXCEPT !.status = "cancelled",
                                                   !.cancellation_reason = reason,
                                                   !.cancelled_by = user,
                                                   !.cancelled_at = now]]
            /\ appts[pk].status = "cancelled"
               => /\ response'.outcome = "error"
                  /\ appts' = appts
      ]_vars

\* C8 witness: a cancel attempt was just rejected and every stored
\* appointment is cancelled, with the first cancel's record.
C8_Witness ==
    /\ response = [op |-> "cancel", outcome |-> "error"]
    /\ appts # <<>>
    /\ \A q \in DOMAIN appts :
          /\ appts[q].status = "cancelled"
          /\ appts[q].cancelled_at # NULL
          /\ appts[q].cancelled_by \in Staff
          /\ appts[q].cancellation_reason # ""

\* C9: confirm changes the status only from scheduled (to confirmed),
\* check-in only from scheduled or confirmed (to checked_in), complete only
\* from checked_in or in_progress (to completed); in any other status the
\* appointment table is left as it was and the answer is a warning.
C9_TransitionsGuarded ==
    [][ /\ response'.op = "confirm" =>
           \A pk \in Pks : ConfirmAppointment(pk) =>
             IF appts[pk].status = "scheduled"
             THEN /\ appts'[pk].status = "confirmed"
                  /\ response'.outcome = "success"
             ELSE /\ appts' = appts
                  /\ response'.outcome = "warning"
        /\ response'.op = "checkin" =>
           \A pk \in Pks : CheckinAppointment(pk) =>
             IF appts[pk].status \in {"scheduled", "confirmed"}
             THEN /\ appts'[pk].status = "checked_in"
                  /\ response'.outcome = "success"
             ELSE /\ appts' = appts
                  /\ response'.outcome = "warning"
        /\ response'.op = "complete" =>
           \A pk \in Pks : CompleteAppointment(pk) =>
             IF appts[pk].status \in {"checked_in", "in_progress"}
             THEN /\ appts'[pk].status = "completed"
                  /\ response'.outcome = "success"
             ELSE /\ appts' = appts
                  /\ response'.outcome = "warning"
      ]_vars

\* C9 witness: a confirm just ended with a warning on appointments that are
\* all confirmed already.
C9_Witness ==
    /\ response = [op |-> "confirm", outcome |-> "warning"]
    /\ appts # <<>>
    /\ \A q \in DOMAIN appts : appts[q].status = "confirmed" /\ appts[q].confirmed_at # NULL

\* The status changes C10 claims: one step along the main line, the branches
\* to cancelled and rescheduled, and the one skip scheduled -> checked_in.
StepsClaimed ==
    { <<"scheduled", "confirmed">>, <<"confirmed", "checked_in">>,
      <<"checked_in", "in_progress">>, <<"in_progress", "completed">>,
      <<"scheduled", "checked_in">>,
      <<"scheduled", "cancelled">>, <<"confirmed", "cancelled">>,
      <<"scheduled", "rescheduled">>, <<"confirmed", "rescheduled">> }

\* C10 (as claimed): every change of an appointment's status is one of
\* StepsClaimed, so completed is entered only from in_progress.
C10_OnlyClaimedSteps ==
    [][ \A pk \in DOMAIN appts \cap DOMAIN appts' :
          appts'[pk].status # appts[pk].status
            => <<appts[pk].status, appts'[pk].status>> \in StepsClaimed ]_vars

\* C10 (amended): every change of an appointment's status is one of
\* StepsClaimed or goes from checked_in straight to completed.
C10_OnlyClaimedStepsOrCheckedInToCompleted ==
    [][ \A pk \in DOMAIN appts \cap DOMAIN appts' :
          appts'[pk].status # appts[pk].status
            => <<appts[pk].status, appts'[pk].status>>
                  \in StepsClaimed \cup {<<"checked_in", "completed">>} ]_vars

\* C10 witness: an appointment was just completed from checked_in.
C10_Witness ==
    /\ response = [op |-> "complete", outcome |-> "success"]
    /\ \E q \in DOMAIN appts :
          /\ appts[q].status = "completed"
          /\ appts[q].checked_in_at # NULL
          /\ appts[q].consultation_start_time = NULL

\* C1: in every reachable state, also with scheduleAppointment requests that
\* overlap, no two appointments of one doctor on one date at one time both
\* have a status among scheduled, confirmed and checked_in.
C1_NoDoubleBooking ==
    \A p, q \in DOMAIN appts :
        ( /\ p # q
          /\ appts[p].doctor = appts[q].doctor
          /\ appts[p].appointment_date = appts[q].appointment_date
          /\ appts[p].appointment_time = appts[q].appointment_time )
        => ~( /\ appts[p].status \in {"scheduled", "confirmed", "checked_in"}
              /\ appts[q].status \in {"scheduled", "confirmed", "checked_in"} )

\* C1 witness: a booking that had passed the form's check was turned away at
\* the insert, and the appointment holding its slot has been checked in.
C1_Witness ==
    \E r \in Reqs, q \in DOMAIN appts :
        /\ reqs[r].pc = "done"
        /\ reqs[r].outcome = "error"
        /\ appts[q].doctor = reqs[r].doctor
        /\ appts[q].appointment_date = reqs[r].appointment_date
        /\ appts[q].appointment_time = reqs[r].appointment_time
        /\ appts[q].status = "checked_in"

\* Two finished scheduleAppointment requests for one slot that both passed
\* the form's check.
Raced(r1, r2) ==
    /\ r1 # r2
    /\ reqs[r1].pc = "done" /\ reqs[r2].pc = "done"
    /\ reqs[r1].outcome # "invalid" /\ reqs[r2].outcome # "invalid"
    /\ reqs[r1].doctor = reqs[r2].doctor
    /\ reqs[r1].appointment_date = reqs[r2].appointment_date
    /\ reqs[r1].appointment_time = reqs[r2].appointment_time

\* The appointment request r stored still sits in the slot r asked for.
StillInSlot(r) ==
    /\ reqs[r].stored \in DOMAIN appts
    /\ appts[reqs[r].stored].doctor = reqs[r].doctor
    /\ appts[reqs[r].stored].appointment_date = reqs[r].appointment_date
    /\ appts[reqs[r].stored].appointment_time = reqs[r].appointment_time

\* C2: of two scheduleAppointment requests for one (doctor, date, time) that
\* both passed the form's check, a request that stores nothing ends as a
\* reported error, never as an exception; both store an appointment only
\* when the first one's appointment was moved out of the slot before the
\* second one's insert; and one of them does store its appointment unless
\* some other appointment is in the table.
C2_RaceHasOneWinner ==
    \A r1, r2 \in Reqs :
        Raced(r1, r2) =>
          /\ \A r \in {r1, r2} :
                IF reqs[r].outcome = "success"
                THEN reqs[r].stored \in DOMAIN appts
                ELSE reqs[r].outcome = "error" /\ reqs[r].stored = 0
          /\ (reqs[r1].outcome = "success" /\ reqs[r2].outcome = "success")
                => ~(StillInSlot(r1) /\ StillInSlot(r2))
          /\ (reqs[r1].outcome # "success" /\ reqs[r2].outcome # "success")
                => appts # <<>>

\* C2 witness: two raced requests, one stored as the only appointment of the
\* table and holding the slot, the other reported as an error.
C2_Witness ==
    \E r1, r2 \in Reqs :
        /\ Raced(r1, r2)
        /\ reqs[r1].outcome = "success"
        /\ reqs[r2].outcome = "error"
        /\ DOMAIN appts = {reqs[r1].stored}
        /\ StillInSlot(r1)

\* The statuses the specification calls terminal.
Terminal == {"cancelled", "rescheduled", "completed"}

\* C11: an appointment whose status is cancelled, rescheduled or completed
\* stays stored with that status across every step.
C11_TerminalStatusStays ==
    [][ \A pk \in DOMAIN appts :
           appts[pk].status \in Terminal =>
              /\ pk \in DOMAIN appts'
              /\ appts'[pk].status = appts[pk].status ]_vars

\* C11 witness: a check-in was just attempted while every stored appointment
\* is cancelled, rescheduled or completed, at least one of them
\* cancelled.
C11_Witness ==
    /\ response = [op |-> "checkin", outcome |-> "warning"]
    /\ \A pk \in DOMAIN appts : appts[pk].status \in Terminal
    /\ \E pk \in DOMAIN appts : appts[pk].status = "cancelled"

\* The rank the specification gives the priorities.
PriorityRank ==
    [p \in PRIORITY_CHOICES |->
        CASE p = "emergency" -> 3  [] p = "urgent" -> 2  [] p = "normal" -> 1]

\* C16: every queue listing puts the entries of higher priority rank
\* (emergency over urgent over normal) first, and entries of one priority in
\* ascending arrival time.
C16_ListingByPriorityRank ==
    "listing" \in DOMAIN response =>
        LET l == response.listing IN
        \A i, j \in DOMAIN l :
            i < j =>
                \/ PriorityRank[queue[l[i]].priority] > PriorityRank[queue[l[j]].priority]
                \/ /\ queue[l[i]].priority = queue[l[j]].priority
                   /\ queue[l[i]].arrival_time <= queue[l[j]].arrival_time

\* Every stored entry carries its date and its place among the entries created
\* on that date (primary keys grow in the order of creation).
NumberedInOrder ==
    \A k \in DOMAIN queue :
        queue[k].queue_number =
            <<queue[k].queue_date,
              1 + Cardinality({j \in DOMAIN queue :
                                  j < k /\ queue[j].queue_date = queue[k].queue_date})>>

\* C17: with enqueue requests handled one after another, every enqueue of a
\* staff user succeeds, stores one entry dated today, and after it the k-th
\* entry of every date carries that date and the sequence k: 1, 2, 3, ...
\* on one date, and 1 again for the first entry of a new date.
C17_SequentialNumbers ==
    [][ /\ NumberedInOrder'
        /\ response'.op = "enqueue" =>
             \A user \in Staff, patient \in Patients, doctor \in Doctors \cup {NULL},
                priority \in PRIORITY_CHOICES :
               ( /\ AddToQueue(user, "POST", patient, doctor, priority)
                 /\ QueueForm_is_valid(patients, doctors, patient, doctor, priority) )
               => /\ response'.outcome = "success"
                  /\ DOMAIN queue' = DOMAIN queue \cup {nextQ}
                  /\ queue'[nextQ].queue_date = today(now)
                  /\ queue'[nextQ].queue_number[2] =
                        1 + Cardinality({j \in DOMAIN queue :
                                            queue[j].queue_date = today(now)})
      ]_vars

\* C17 witness: a second entry on the first date and a first entry on the
\* next date are stored.
C17_Witness ==
    \E j, k \in DOMAIN queue :
        /\ queue[j].queue_number = <<0, 2>>
        /\ queue[k].queue_number = <<1, 1>>
        /\ j < k

\* C19: posting with_doctor stamps consultation_start_time with the clock and
\* clears the flag of the entry's doctor; posting completed stamps
\* consultation_end_time and sets that flag; cancelling, through the status
\* view or the remove view, changes the status of the entry and nothing
\* else, in the queue or in the doctor table.
C19_QueueStatusEffects ==
    [][ /\ response'.op = "queue_status" =>
           \A pk \in QPks, new_status \in Queue_STATUS_CHOICES :
             UpdateQueueStatus(pk, "POST", new_status) =>
               /\ \A k \in DOMAIN queue : k # pk => queue'[k] = queue[k]
               /\ new_status = "with_doctor" =>
                    /\ queue'[pk] = [queue[pk] EXCEPT !.status = "with_doctor",
                                                      !.consultation_start_time = now]
                    /\ queue[pk].doctor # NULL =>
                         doctors' = [doctors EXCEPT
                                        ![queue[pk].doctor].is_available = FALSE]
               /\ new_status = "completed" =>
                    /\ queue'[pk] = [queue[pk] EXCEPT !.status = "completed",
                                                      !.consultation_end_time = now]
                    /\ queue[pk].doctor # NULL =>
                         doctors' = [doctors EXCEPT
                                        ![queue[pk].doctor].is_available = TRUE]
               /\ new_status = "cancelled" =>
                    /\ queue'[pk] = [queue[pk] EXCEPT !.status = "cancelled"]
                    /\ doctors' = doctors
        /\ response'.op = "queue_remove" =>
           \A pk \in QPks : RemoveFromQueue(pk, "POST") =>
               /\ queue' = [queue EXCEPT ![pk].status = "cancelled"]
               /\ doctors' = doctors
      ]_vars

\* C19 witness: an entry that was with its doctor has just been cancelled:
\* its start stamp is still there and the doctor is still flagged busy,
\* while another entry was completed and carries its end stamp.
C19_Witness ==
    /\ response = [op |-> "queue_remove", outcome |-> "success"]
    /\ \E j, k \in DOMAIN queue :
          /\ queue[k].status = "cancelled"
          /\ queue[k].consultation_start_time # NULL
          /\ queue[k].doctor # NULL
          /\ ~doctors[queue[k].doctor].is_available
          /\ queue[j].status = "completed"
          /\ queue[j].consultation_end_time # NULL

\* C20: no doctor has two queue entries with status with_doctor.
C20_OneWithDoctorPerDoctor ==
    \A d \in Doctors :
        Cardinality({k \in DOMAIN queue :
                        queue[k].doctor = d /\ queue[k].status = "with_doctor"}) <= 1

\* C18: two enqueue requests of staff users that passed the form's check
\* both end with their entry stored, under distinct queue numbers.
C18_ConcurrentEnqueueDistinct ==
    \A r1, r2 \in Reqs :
        ( /\ r1 # r2
          /\ qreqs[r1].pc = "done" /\ qreqs[r2].pc = "done"
          /\ qreqs[r1].outcome \notin {"invalid", "error"}
          /\ qreqs[r2].outcome \notin {"invalid", "error"} )
        => /\ qreqs[r1].outcome = "success" /\ qreqs[r2].outcome = "success"
           /\ qreqs[r1].stored \in DOMAIN queue /\ qreqs[r2].stored \in DOMAIN queue
           /\ queue[qreqs[r1].stored].queue_number # queue[qreqs[r2].stored].queue_number

\* C12: across every step the stored appointments and the stored queue
\* entries only grow: no primary key leaves either table.
C12_NothingIsDeleted ==
    [][ /\ DOMAIN appts \subseteq DOMAIN appts'
        /\ DOMAIN queue \subseteq DOMAIN queue' ]_vars

\* C13: every availability window holds at most max_appointments active
\* appointments of its doctor on its date with a time in [start, end).
C13_WindowCapacity ==
    \A w \in DOMAIN windows :
        get_booked_slots(appts, windows[w]) <= windows[w].max_appointments

\* The time t of doctor on date d lies in one of the doctor's windows of that
\* date whose is_available flag is set.
InAvailableWindow(wdb, doctor, d, t) ==
    \E w \in DOMAIN wdb :
        /\ wdb[w].doctor = doctor
        /\ wdb[w].date = d
        /\ wdb[w].is_available
        /\ wdb[w].start_time <= t
        /\ t < wdb[w].end_time

\* C14: every appointment row that schedule or reschedule stores has its
\* time inside an available window of its doctor on its date.
C14_BookedInsideWindow ==
    [][ \A pk \in DOMAIN appts' \ DOMAIN appts :
            InAvailableWindow(windows, appts'[pk].doctor,
                              appts'[pk].appointment_date, appts'[pk].appointment_time)
      ]_vars

\* The times start + k*m before end, in ascending order, each marked
\* available unless an active appointment of the window's doctor on the
\* window's date is stored at exactly that time.
ExpectedSlots(db, w, m) ==
    LET n == Cardinality({k \in 0..(MaxSlotSteps * SlotStep) : w.start_time + k * m < w.end_time})
    IN  [i \in 1..n |->
            LET t == w.start_time + (i - 1) * m IN
            [time |-> t,
             available |-> ~(\E a \in DOMAIN db :
                                /\ db[a].doctor = w.doctor
                                /\ db[a].appointment_date = w.date
                                /\ db[a].appointment_time = t
                                /\ db[a].status \in {"scheduled", "confirmed", "checked_in"})]]

\* C15: get_available_time_slots on a window with slot duration m answers
\* exactly the expected slot sequence, the view answers it for the first
\* available window with the default duration, and neither changes a table.
C15_SlotListing ==
    [][ /\ \A pk \in WPks, m \in SlotDurations :
              GetAvailableTimeSlots(pk, m) =>
                  /\ response'.slots = ExpectedSlots(appts, windows[pk], m)
                  /\ UNCHANGED <<appts, nextPk, doctors, now, reqs, pvars, qvars, wvars>>
        /\ \A doctor_id \in Doctors :
              (GetAvailableSlotsAjax(doctor_id, 0) /\ response'.available) =>
                  /\ \E pk \in DOMAIN windows :
                        /\ windows[pk].doctor = doctor_id /\ windows[pk].is_available
                        /\ response'.slots =
                               ExpectedSlots(appts, windows[pk], DefaultSlotDuration)
                  /\ UNCHANGED <<appts, nextPk, doctors, now, reqs, pvars, qvars, wvars>>
      ]_vars

\* A listing of three slots of which exactly the middle one is booked, over a
\* table that also holds an appointment off the slot grid.
C15_Witness ==
    /\ response.op = "get_available_time_slots"
    /\ Len(response.slots) = 3
    /\ response.slots[1].available
    /\ ~response.slots[2].available
    /\ response.slots[3].available
    /\ \E a \in DOMAIN appts :
          /\ appts[a].status \in ACTIVE_STATUSES
          /\ appts[a].doctor = windows[response.window].doctor
          /\ \A i \in 1..3 : response.slots[i].time # appts[a].appointment_time

\* The highest number behind PAT among the stored patient ids, 0 if none.
HighestSuffix(pats) ==
    LET nums == { int(replace_PAT(pats[k].patient_id)) :
                    k \in {j \in DOMAIN pats : IntParses(replace_PAT(pats[j].patient_id))} }
    IN  IF nums = {} THEN 0 ELSE CHOOSE n \in nums : \A m \in nums : m <= n

\* C21: a registration with the patient id left empty stores a new patient
\* whose id is PAT + (highest stored suffix + 1) padded to five digits (PAT00001
\* when none is stored), an id no patient held before.
C21_AutoPatientId ==
    [][ \A user \in Users :
          PatientCreate(user, <<>>) =>
              /\ DOMAIN patients' = DOMAIN patients \cup {nextPatient}
              /\ patients'[nextPatient].patient_id =
                     format_patient_id(HighestSuffix(patients) + 1)
              /\ ~PatientIdTaken(patients, patients'[nextPatient].patient_id)
      ]_vars

\* C22: in every reachable state a call of generate_appointment_id returns
\* <<today, n + 1>>, n the number of stored identifiers of today, when no
\* appointment holds it, otherwise today with a random suffix; and no stored
\* appointment holds an identifier the call can return.
C22_FreshAppointmentId ==
    LET n         == Cardinality({q \in DOMAIN appts :
                         /\ appts[q].appointment_id # <<>>
                         /\ appts[q].appointment_id[1] = today(now)})
        candidate == <<today(now), n + 1>>
        ids       == generate_appointment_id(appts, now)
    IN  /\ ~AppointmentIdTaken(appts, 0, candidate) => ids = {candidate}
        /\ AppointmentIdTaken(appts, 0, candidate) =>
               ids = {<<today(now), r>> : r \in RandomSuffixes}
        /\ \A id \in ids : ~AppointmentIdTaken(appts, 0, id)

\* C23: every stored weekly schedule and every stored availability window
\* has its start time strictly before its end time.
C23_StartBeforeEnd ==
    /\ \A k \in DOMAIN schedules : schedules[k].start_time < schedules[k].end_time
    /\ \A k \in DOMAIN windows : windows[k].start_time < windows[k].end_time

\* C24: a successful enqueue stores as estimate 15 times the number of
\* entries of the same doctor waiting today before the insert (0 without a
\* doctor), and no step changes the estimate of a stored entry.
C24_EstimateFixedAtEnqueue ==
    [][ /\ \A doctor \in Doctors \cup {NULL} :
              (AddToQueue(1, "POST", 1, doctor, "normal") /\ nextQ \in DOMAIN queue') =>
                  queue'[nextQ].estimated_wait_time =
                      IF doctor = NULL THEN 0
                      ELSE 15 * Cardinality({k \in DOMAIN queue :
                                  /\ queue[k].doctor = doctor
                                  /\ queue[k].queue_date = today(now)
                                  /\ queue[k].status = "waiting"})
        /\ \A k \in DOMAIN queue :
              k \in DOMAIN queue' /\
              queue'[k].estimated_wait_time = queue[k].estimated_wait_time
      ]_vars

\* An entry enqueued behind one waiting entry of its doctor keeps its
\* estimate of 15 after both have left the waiting state.
C24_Witness ==
    \E k, j \in DOMAIN queue :
        /\ queue[k].estimated_wait_time = 15
        /\ queue[k].status # "waiting"
        /\ queue[j].doctor = queue[k].doctor
        /\ j < k
        /\ queue[j].status # "waiting"

\* C25: the wait read for an entry is the whole minutes from arrival to the
\* recorded consultation start; without a start, for a waiting entry, the
\* whole minutes from arrival to the clock; otherwise 0.  While the table
\* does not change, a later reading for a waiting entry is never smaller.
C25_WaitTime ==
    [][ /\ \A pk \in QPks :
              GetWaitTime(pk) =>
                  response'.wait_time =
                      IF queue[pk].consultation_start_time # NULL
                      THEN ((queue[pk].consultation_start_time - queue[pk].arrival_time)
                                * TickSeconds) \div 60
                      ELSE IF queue[pk].status = "waiting"
                      THEN ((now - queue[pk].arrival_time) * TickSeconds) \div 60
                      ELSE 0
        /\ (queue' = queue /\ now' >= now) =>
              \A k \in DOMAIN queue :
                  queue[k].status = "waiting" =>
                      get_wait_time(queue[k], now') >= get_wait_time(queue[k], now)
      ]_vars

\* The wait was read for an entry no longer waiting whose consultation
\* started after its arrival and before the present clock value.
C25_Witness ==
    /\ response.op = "get_wait_time"
    /\ response.entry \in DOMAIN queue
    /\ queue[response.entry].status # "waiting"
    /\ queue[response.entry].consultation_start_time > queue[response.entry].arrival_time
    /\ now > queue[response.entry].consultation_start_time
    /\ response.wait_time > 0

\* C26: whenever a queue entry of a doctor has status with_doctor, the
\* doctor's is_available flag is false.
C26_WithDoctorMeansBusy ==
    \A k \in DOMAIN queue :
        (queue[k].status = "with_doctor" /\ queue[k].doctor # NULL) =>
            ~doctors[queue[k].doctor].is_available

\* C29: an appointment is stored by the schedule view, and a walk-in with a
\* doctor by the enqueue view, only when the doctor's is_available flag is
\* set in the state the request finds (for the walk-in accepts_walkins as
\* well); so while the flag of a doctor is clear neither is stored for them.
\* (A row with rescheduled_from set comes from the reschedule view.)
C29_DoctorMustBeAvailable ==
    [][ /\ \A doctor \in Doctors, det \in Details :
              (ScheduleAppointment(1, doctor, 0, 0, det) /\ nextPk \in DOMAIN appts') =>
                  doctors[doctor].is_available
        /\ \A doctor \in Doctors :
              (AddToQueue(1, "POST", 1, doctor, "normal") /\ nextQ \in DOMAIN queue') =>
                  doctors[doctor].is_available /\ doctors[doctor].accepts_walkins
        /\ \A doctor \in Doctors :
              ~doctors[doctor].is_available =>
                  /\ \A k \in DOMAIN appts' \ DOMAIN appts :
                        appts'[k].rescheduled_from = NULL => appts'[k].doctor # doctor
                  /\ \A k \in DOMAIN queue' \ DOMAIN queue : queue'[k].doctor # doctor
      ]_vars

\* A walk-in is with doctor 1, whose flag is clear, and the schedule view has
\* just turned down a request; a second walk-in of doctor 1 was enqueued
\* earlier, while the flag was set.
C29_Witness ==
    /\ \E k, j \in DOMAIN queue :
          /\ k # j
          /\ queue[k].doctor = 1 /\ queue[k].status = "with_doctor"
          /\ queue[j].doctor = 1
    /\ ~doctors[1].is_available
    /\ response = [op |-> "schedule", outcome |-> "invalid"]

\* C27: requests that overlap on one appointment cannot undo one another:
\* once the status cancelled is stored it is never overwritten, and the
\* cancellation time, reason and actor stored with it are not erased.
C27_CancelledIsNeverOverwritten ==
    [][\A pk \in DOMAIN appts :
          appts[pk].status = "cancelled"
              => /\ appts'[pk].status = "cancelled"
                 /\ appts'[pk].cancelled_at = appts[pk].cancelled_at
                 /\ appts'[pk].cancellation_reason = appts[pk].cancellation_reason
                 /\ appts'[pk].cancelled_by = appts[pk].cancelled_by]_vars

\* C28: every appointment is the rescheduled_from target of at most one
\* other appointment, and every target has the status rescheduled, also when
\* requests on the same appointment overlap.
C28_OneSuccessorPerReschedule ==
    \A pk \in DOMAIN appts :
        LET successors == {k \in DOMAIN appts : appts[k].rescheduled_from = pk} IN
        /\ Cardinality(successors) <= 1
        /\ successors # {} => appts[pk].status = "rescheduled"

\* C30: every queue number an enqueue produces has at most max_length (10)
\* characters, whatever the date and the sequence value of the day.
C30_QueueNumberFits ==
    \A k \in DOMAIN queue :
        Len(format_queue_number(queue[k].queue_number)) <= queue_number_max_length

====
